---- MODULE Spec2Model ----
(***************************************************************************)
(* A model of ragproxy (piqnyx/ragproxy): the streaming response           *)
(* interceptor (writer.go), the IDF store (idf.go), ingestion into the     *)
(* vector store (upsertPoint / storeAttachments) and the context packer    *)
(* (calcSizes / feedPrompt / processInbound).                              *)
(*                                                                         *)
(* Text is a sequence of one-character strings.  A ResponsePacket is a     *)
(* record [PacketType, RawData, seq]: RawData stands for the JSON of the   *)
(* frame ([kind, msg], msg being the text at the message path) and seq is  *)
(* a ghost field, the position of the inbound chunk the frame came from    *)
(* (0 for a frame synthesized by CloseAndProcess).  The code never reads   *)
(* seq: EnqueuePacket compares RawData only.                               *)
(***************************************************************************)
EXTENDS Integers, Sequences, FiniteSets, TLC

\* ------------------------------------------------------------------ bounds

\* Number of inbound chunks one response may carry.
MaxChunks == 3
\* Number of StopOutgoingLoop calls made on one collector.
MaxStopCalls == 2

\* ------------------------------------------------- configuration (stream)

\* Config.MaxTriggerLengthMultiplier of the modelled configuration.
MaxTriggerLengthMultiplier == 1
\* Config.MaxTriggerLengthAdditional of the modelled configuration.
MaxTriggerLengthAdditional == 0
\* Config.InitialOutgoingGorutineBufferCount: the capacity outgoingCh is made
\* with in NewResponseCollector.
InitialOutgoingGorutineBufferCount == 2

\* Config.ResponseReplacer, a map from trigger to a map from find pattern to
\* replacement, as the set of its entries.
\* One trigger "ab" with the rule /ab/ -> "z".
StreamReplacer ==
  { [Trigger |-> <<"a", "b">>,
     Rules   |-> { [Find |-> <<"a", "b">>, Replace |-> <<"z">>] }] }
\* One trigger "aa" whose rule /aa/ -> "aa" replaces a match by itself.
IdentityReplacer ==
  { [Trigger |-> <<"a", "a">>,
     Rules   |-> { [Find |-> <<"a", "a">>, Replace |-> <<"a", "a">>] }] }
\* One trigger "ab" whose rule /ab/ -> "zz" gives a text of two equal tokens.
DoubleReplacer ==
  { [Trigger |-> <<"a", "b">>,
     Rules   |-> { [Find |-> <<"a", "b">>, Replace |-> <<"z", "z">>] }] }
\* Two triggers; the rules /ab/ -> "z" and /b/ -> "a" of the first can match
\* overlapping text.
OverlapReplacer ==
  { [Trigger |-> <<"a", "b">>,
     Rules   |-> { [Find |-> <<"a", "b">>, Replace |-> <<"z">>],
                   [Find |-> <<"b">>, Replace |-> <<"a">>] }],
    [Trigger |-> <<"a", "a">>,
     Rules   |-> { [Find |-> <<"a", "a">>, Replace |-> <<"b">>] }] }

\* Text deltas an inbound Stream frame may carry.
StreamTexts == { <<"a">>, <<"b">>, <<"a", "a">> }
\* Message text an inbound Direct body may carry.
DirectTexts == { <<"a", "b">> }

VARIABLES
  \* ResponseCollector fields
  incomingPackets, outgoingPackets, globalTextBuffer, currentTextBuffer,
  complete, collecting, wasMessages, templateStreamPacket, templateFinishPacket,
  notifyCh, stopCh, doneCh,
  \* StartOutgoingLoop goroutine: position, local "stopping", popped packet
  loopPc, stopping, loopPkt,
  \* the handler: position, packets a call still has to enqueue, Stop calls made
  hpc, pending, stopCalls,
  \* result of CloseAndProcess
  cleanAssistantContent,
  \* the downstream ResponseWriter: frames written, each with its writer
  downstream,
  \* ghosts: chunks Write was called with; packets pushed on outgoingPackets
  accepted, enqLog

streamVars ==
  << incomingPackets, outgoingPackets, globalTextBuffer, currentTextBuffer,
     complete, collecting, wasMessages, templateStreamPacket, templateFinishPacket,
     notifyCh, stopCh, doneCh, loopPc, stopping, loopPkt, hpc, pending, stopCalls,
     cleanAssistantContent, downstream, accepted, enqLog >>

VARIABLES
  \* appCtx.IDFStore, appCtx.IDFChanged, Config.UseBM25IDF
  IDFStore, IDFChanged, UseBM25IDF,
  \* ghosts: how often each body is counted; calls made
  corpus, idfOps

idfVars == << IDFStore, IDFChanged, UseBM25IDF, corpus, idfOps >>

VARIABLES
  \* the vector store: point id -> payload; processOutbound calls made (ghost)
  points, requests

ingestVars == << points, requests >>

VARIABLES
  \* the body of the request handled last, the body forwarded upstream for
  \* it, and how processInbound ended
  inbound, forwarded, outcome,
  \* ghosts: what the embedding service and the search answered; requests handled
  answers, handled

packVars == << inbound, forwarded, outcome, answers, handled >>

VARIABLES
  \* appCtx.idfMu (who holds it exclusively), appCtx.idfAutoSaveStopChan
  idfMu, idfAutoSaveStopChan,
  \* a handler inside updateDocumentInIDF: position, document and mode
  upc, udoc,
  \* updateFeaturesForCandidate during a rerank: position, what it has read
  rpc, seen,
  \* the files Config.IDFFile and Config.IDFFile + ".last"
  idfFile, lastFile,
  \* the autosave goroutine: position, ticks received
  apc, ticks,
  \* shutdownApp: position, the struct copy and the data saveIDF marshalled
  spc, scopy, sdata,
  \* ghosts: the store after each completed call; failed file operations
  committed, ioErrors

saveVars ==
  << idfMu, idfAutoSaveStopChan, upc, udoc, rpc, seen, idfFile, lastFile,
     apc, ticks, spc, scopy, sdata, committed, ioErrors >>

VARIABLES
  \* Config.ResponseReplacer and appCtx.responseReplaceRules
  ResponseReplacer, responseReplaceRules,
  \* the text applyReplaceRulesToString was called with last and its result
  ruleSrc, ruleOut

ruleVars == << ResponseReplacer, responseReplaceRules, ruleSrc, ruleOut >>

VARIABLES
  \* appCtx.DB (0 is nil), the connections (closed or not)
  DB, conns,
  \* each withDB call: position and its local db
  dpc, dconn,
  \* ghosts: the connection fn ran against and the one the call closed
  usedConn, closedConn

dbVars == << DB, conns, dpc, dconn, usedConn, closedConn >>

VARIABLES
  \* the attachments planAttachmentSync was called with last, its result and
  \* what storeAttachments did with them
  planInput, planned

planVars == << planInput, planned >>

VARIABLES
  \* the storeAttachments calls in progress, one per request task; the
  \* uuids issued; the calls started
  storing, uuids, stores

storeVars == << storing, uuids, stores >>

VARIABLES
  \* one prepareFeeds call: its arguments and what it returned
  feedArgs, feedResult

feedVars == << feedArgs, feedResult >>

VARIABLES
  \* one SearchRelevantContentWithRerank call: its inputs and what it returned
  rerankArgs, rerankResult

rerankVars == << rerankArgs, rerankResult >>

VARIABLES
  \* one candidate of the search: what its features are computed from, and the features
  featArgs, featResult

featVars == << featArgs, featResult >>

auxVars == << ruleVars, dbVars, planVars, storeVars, feedVars, rerankVars, featVars >>

\* What a step of the stream interceptor leaves alone.
notStreamVars == << idfVars, ingestVars, packVars, saveVars, auxVars >>
\* What a step on the IDF store leaves alone.
notIDFVars == << streamVars, ingestVars, packVars, saveVars, auxVars >>
\* What a step of ingestion leaves alone, the IDF store apart.
notIngestVars == << streamVars, packVars, saveVars, auxVars >>
\* What a step of the context packer leaves alone.
notPackVars == << streamVars, idfVars, ingestVars, saveVars, auxVars >>
\* What a step of a lock holder or of a snapshot leaves alone, the IDF store apart.
notSaveVars == << streamVars, ingestVars, packVars, auxVars >>
\* What a rule application leaves alone.
notRuleVars == << streamVars, idfVars, ingestVars, packVars, saveVars, dbVars, planVars, storeVars, feedVars, rerankVars, featVars >>
\* What a step of withDB leaves alone.
notDBVars == << streamVars, idfVars, ingestVars, packVars, saveVars, ruleVars, planVars, storeVars, feedVars, rerankVars, featVars >>
\* What planning the attachments leaves alone.
notPlanVars == << streamVars, idfVars, packVars, saveVars, ruleVars, dbVars, storeVars, feedVars, rerankVars, featVars >>
notStoreVars == << streamVars, packVars, saveVars, ruleVars, dbVars, planVars, feedVars, rerankVars, featVars >>
\* What a call of prepareFeeds leaves alone.
notFeedVars ==
  << streamVars, idfVars, ingestVars, packVars, saveVars, ruleVars, dbVars, planVars,
     storeVars, rerankVars, featVars >>
\* What a call of SearchRelevantContentWithRerank leaves alone.
notSearchVars ==
  << streamVars, idfVars, ingestVars, packVars, saveVars, ruleVars, dbVars, planVars,
     storeVars, feedVars, featVars >>
\* What computing the features of a candidate leaves alone.
notFeatVars ==
  << streamVars, idfVars, ingestVars, packVars, saveVars, ruleVars, dbVars, planVars,
     storeVars, feedVars, rerankVars >>


\* ---------------------------------------------------------- text helpers

\* p occurs in s at position i (1-based).
MatchAt(s, p, i) ==
  /\ i >= 1
  /\ i + Len(p) - 1 <= Len(s)
  /\ \A k \in 1..Len(p) : s[i + k - 1] = p[k]

\* strings.Contains(s, p)
Contains(s, p) == \E i \in 1..(Len(s) - Len(p) + 1) : MatchAt(s, p, i)

RECURSIVE ReplaceFrom(_, _, _, _)
\* Regexp.ReplaceAllString for a literal pattern: leftmost non-overlapping
\* matches, scanning from position i.
ReplaceFrom(s, find, repl, i) ==
  IF i > Len(s) THEN <<>>
  ELSE IF Len(find) > 0 /\ MatchAt(s, find, i)
       THEN repl \o ReplaceFrom(s, find, repl, i + Len(find))
       ELSE <<s[i]>> \o ReplaceFrom(s, find, repl, i + 1)

ReplaceAllString(s, find, repl) == ReplaceFrom(s, find, repl, 1)

RECURSIVE ConcatAll(_)
ConcatAll(ss) == IF ss = <<>> THEN <<>> ELSE Head(ss) \o ConcatAll(Tail(ss))

\* ------------------------------------------------------ rule application

\* The orders in which a range over a map with the entries S may visit them.
MapRange(S) ==
  { s \in [1..Cardinality(S) -> S] : \A x \in S : \E i \in DOMAIN s : s[i] = x }

\* The records one trigger gives: its rules in an order of the range over
\* the inner map.
RecordsOf(entry) ==
  { [Trigger |-> entry.Trigger, Rules |-> rules] : rules \in MapRange(entry.Rules) }

\* initResponseReplaceRules: the values appCtx.responseReplaceRules may get
\* from a configuration.  Triggers without rules are skipped; the records are
\* appended in the order of the range over the outer map.
initResponseReplaceRules(cfg) ==
  LET kept == { e \in cfg : e.Rules # {} }
  IN UNION { { recs \in [1..Cardinality(kept) -> UNION { RecordsOf(e) : e \in kept }] :
                 \A i \in 1..Cardinality(kept) : recs[i] \in RecordsOf(order[i]) }
             : order \in MapRange(kept) }

\* All rules of the records, in the order applyReplaceRulesToString walks them.
AllRulesOf(records) == ConcatAll([i \in 1..Len(records) |-> records[i].Rules])

AllRules == AllRulesOf(responseReplaceRules)

RECURSIVE ApplyRulesFrom(_, _, _, _)
ApplyRulesFrom(rules, out, changed, k) ==
  IF k > Len(rules) THEN [out |-> out, changed |-> changed]
  ELSE LET rule   == rules[k]
           newOut == ReplaceAllString(out, rule.Find, rule.Replace)
       IN IF ~Contains(out, rule.Find) THEN ApplyRulesFrom(rules, out, changed, k + 1)
          ELSE IF newOut # out THEN ApplyRulesFrom(rules, newOut, TRUE, k + 1)
          ELSE ApplyRulesFrom(rules, out, changed, k + 1)

applyReplaceRulesToString(src) == ApplyRulesFrom(AllRules, src, FALSE, 1)

containsTrigger(inStr) ==
  /\ Len(responseReplaceRules) # 0
  /\ \E i \in 1..Len(responseReplaceRules) :
        /\ responseReplaceRules[i].Trigger # <<>>
        /\ Contains(inStr, responseReplaceRules[i].Trigger)

MaxLenOf(S) == IF S = {} THEN 0
               ELSE LET x == CHOOSE y \in S : \A z \in S : Len(y) >= Len(z)
                    IN Len(x)

responseReplaceMaxTriggerLen ==
  MaxLenOf({responseReplaceRules[i].Trigger : i \in 1..Len(responseReplaceRules)})
    * MaxTriggerLengthMultiplier + MaxTriggerLengthAdditional

\* ------------------------------------------------------------- tokenizer

\* appCtx.Tokenizer (external library): one token per character; Decode of a
\* single id gives that character back.
TokenTable == << "a", "b", "z" >>
TokenizerEncode(text) ==
  [i \in 1..Len(text) |-> CHOOSE id \in 1..Len(TokenTable) : TokenTable[id] = text[i]]
TokenizerDecode(id) == << TokenTable[id] >>

\* ----------------------------------------------------------------- packets

\* RawData of a frame: kind of body and the text at the message path.
RawStream(text) == [kind |-> "json", msg |-> text]
RawFinish == [kind |-> "done", msg |-> <<>>]
RawOther == [kind |-> "other", msg |-> <<>>]
RawEmpty == [kind |-> "", msg |-> <<>>]

Packet(type, raw, n) == [PacketType |-> type, RawData |-> raw, seq |-> n]

\* ResponsePacket{}: the zero value (PacketType 0 is OtherPacket).
ZeroPacket == Packet("Other", RawEmpty, 0)

\* extractMessage(RawData, MessagePath) / gjson.Get(...).String()
extractMessage(raw) == raw.msg
\* sjson.Set(RawData, MessagePath, text)
SetMessage(raw, text) == [raw EXCEPT !.msg = text]

\* packetWireData for a non-SSE packet: RawData as it is.
packetWireData(pkt) == pkt

\* --------------------------------------------------------- EnqueuePacket

\* The queue after EnqueuePacket(pkt): a packet whose RawData equals that of
\* the last queued packet is not pushed.
EnqueuedQueue(q, pkt) ==
  IF Len(q) > 0 /\ q[Len(q)].RawData = pkt.RawData THEN q ELSE Append(q, pkt)

\* EnqueuePacket without its send on notifyCh.
NotifiedChLost(q, pkt, ch) == ch

\* notifyCh after the non-blocking send that follows a push.
NotifiedCh(q, pkt, ch) ==
  IF EnqueuedQueue(q, pkt) = q THEN ch ELSE 1

\* One EnqueuePacket call of the running Write / CloseAndProcess.
EnqueuePacket ==
  /\ pending # <<>>
  /\ LET pkt == Head(pending)
         q   == EnqueuedQueue(outgoingPackets, pkt)
     IN /\ outgoingPackets' = q
        /\ notifyCh' = NotifiedCh(outgoingPackets, pkt, notifyCh)
        /\ enqLog' = IF q = outgoingPackets THEN enqLog ELSE Append(enqLog, pkt)
  /\ pending' = Tail(pending)
  /\ UNCHANGED << notStreamVars, incomingPackets, globalTextBuffer, currentTextBuffer, complete,
                  collecting, wasMessages, templateStreamPacket, templateFinishPacket,
                  stopCh, doneCh, loopPc, stopping, loopPkt, hpc, stopCalls,
                  cleanAssistantContent, downstream, accepted >>

\* ------------------------------------------------------ StartOutgoingLoop

\* The loop finds a packet: PopFront under the mutex.
LoopPop ==
  /\ loopPc = "top"
  /\ Len(outgoingPackets) > 0
  /\ loopPkt' = Head(outgoingPackets)
  /\ outgoingPackets' = Tail(outgoingPackets)
  /\ loopPc' = "write"
  /\ UNCHANGED << notStreamVars, incomingPackets, globalTextBuffer, currentTextBuffer, complete,
                  collecting, wasMessages, templateStreamPacket, templateFinishPacket,
                  notifyCh, stopCh, doneCh, stopping, hpc, pending, stopCalls,
                  cleanAssistantContent, downstream, accepted, enqLog >>

\* ResponseWriter.Write(packetWireData(pkt)) and Flush, outside the mutex.
LoopWrite ==
  /\ loopPc = "write"
  /\ downstream' = Append(downstream, [pkt |-> packetWireData(loopPkt), by |-> "loop"])
  /\ loopPkt' = ZeroPacket
  /\ loopPc' = "top"
  /\ UNCHANGED << notStreamVars, incomingPackets, outgoingPackets, globalTextBuffer,
                  currentTextBuffer, complete, collecting, wasMessages,
                  templateStreamPacket, templateFinishPacket, notifyCh, stopCh, doneCh,
                  stopping, hpc, pending, stopCalls, cleanAssistantContent,
                  accepted, enqLog >>

\* What the loop does at the top with an empty queue: leave when stopping,
\* otherwise go and wait.
LoopEmptyPc(stop) == IF stop THEN "exited" ELSE "wait"

\* Queue empty: return (the deferred close(doneCh) runs) or go to the select.
LoopEmpty ==
  /\ loopPc = "top"
  /\ Len(outgoingPackets) = 0
  /\ loopPc' = LoopEmptyPc(stopping)
  /\ doneCh' = IF loopPc' = "exited" THEN doneCh + 1 ELSE doneCh
  /\ UNCHANGED << notStreamVars, incomingPackets, outgoingPackets, globalTextBuffer,
                  currentTextBuffer, complete, collecting, wasMessages,
                  templateStreamPacket, templateFinishPacket, notifyCh, stopCh,
                  stopping, loopPkt, hpc, pending, stopCalls, cleanAssistantContent,
                  downstream, accepted, enqLog >>

\* select: case <-w.notifyCh
LoopNotified ==
  /\ loopPc = "wait"
  /\ notifyCh = 1
  /\ notifyCh' = 0
  /\ loopPc' = "top"
  /\ UNCHANGED << notStreamVars, incomingPackets, outgoingPackets, globalTextBuffer,
                  currentTextBuffer, complete, collecting, wasMessages,
                  templateStreamPacket, templateFinishPacket, stopCh, doneCh,
                  stopping, loopPkt, hpc, pending, stopCalls, cleanAssistantContent,
                  downstream, accepted, enqLog >>

\* select: case <-w.stopCh (ready once the channel is closed)
LoopStopSeen ==
  /\ loopPc = "wait"
  /\ stopCh = "closed"
  /\ stopping' = TRUE
  /\ loopPc' = "top"
  /\ UNCHANGED << notStreamVars, incomingPackets, outgoingPackets, globalTextBuffer,
                  currentTextBuffer, complete, collecting, wasMessages,
                  templateStreamPacket, templateFinishPacket, notifyCh, stopCh, doneCh,
                  loopPkt, hpc, pending, stopCalls, cleanAssistantContent,
                  downstream, accepted, enqLog >>

StartOutgoingLoop == LoopPop \/ LoopWrite \/ LoopEmpty \/ LoopNotified \/ LoopStopSeen

\* ------------------------------------------------------------------ Write

loopVars == << notifyCh, stopCh, doneCh, loopPc, stopping, loopPkt >>

\* Write may be called: the proxy is still copying the upstream body.
CanWrite == hpc = "serving" /\ pending = <<>> /\ Len(accepted) < MaxChunks

\* OtherPacket: the data goes to the ResponseWriter at once.
WriteOther ==
  /\ CanWrite
  /\ LET pkt == Packet("Other", RawOther, Len(accepted) + 1)
     IN /\ accepted' = Append(accepted, pkt)
        /\ downstream' = Append(downstream, [pkt |-> pkt, by |-> "write"])
  /\ UNCHANGED << notStreamVars, incomingPackets, outgoingPackets, globalTextBuffer,
                  currentTextBuffer, complete, collecting, wasMessages,
                  templateStreamPacket, templateFinishPacket, loopVars, hpc, pending,
                  stopCalls, cleanAssistantContent, enqLog >>

\* applyResponseReplaceToPacket: the body to write and the replaced text
\* ("" when no rule changed the text).
applyResponseReplaceToPacket(pkt) ==
  LET src == extractMessage(pkt.RawData)
      r   == applyReplaceRulesToString(src)
  IN IF Len(responseReplaceRules) = 0 \/ ~r.changed
     THEN [jsonStr |-> pkt.RawData, replacedStr |-> <<>>]
     ELSE [jsonStr |-> SetMessage(pkt.RawData, r.out), replacedStr |-> r.out]

\* DirectPacket: rewrite the body, remember the text, write the body at once.
WriteDirect(text) ==
  /\ CanWrite
  /\ LET pkt == Packet("Direct", RawStream(text), Len(accepted) + 1)
         r   == applyResponseReplaceToPacket(pkt)
     IN /\ accepted' = Append(accepted, pkt)
        /\ wasMessages' = TRUE
        /\ globalTextBuffer' = r.replacedStr
        /\ complete' = TRUE
        /\ downstream' = Append(downstream,
                                [pkt |-> [pkt EXCEPT !.RawData = r.jsonStr], by |-> "write"])
  /\ UNCHANGED << notStreamVars, incomingPackets, outgoingPackets, currentTextBuffer, collecting,
                  templateStreamPacket, templateFinishPacket, loopVars, hpc, pending,
                  stopCalls, cleanAssistantContent, enqLog >>

\* What Write(FinishStream) hands to EnqueuePacket: nothing while collecting,
\* otherwise the retained frames and then the finish frame.
FinishFlush(coll, retained, pkt) ==
  IF coll THEN <<>> ELSE Append(retained, pkt)

\* FinishStreamPacket.
WriteFinish ==
  /\ CanWrite
  /\ LET pkt == Packet("Finish", RawFinish, Len(accepted) + 1)
     IN /\ accepted' = Append(accepted, pkt)
        /\ complete' = TRUE
        /\ templateFinishPacket' = pkt
        /\ pending' = FinishFlush(collecting, incomingPackets, pkt)
        /\ IF collecting
           THEN UNCHANGED << globalTextBuffer, currentTextBuffer, incomingPackets >>
           ELSE /\ globalTextBuffer' = globalTextBuffer \o currentTextBuffer
                /\ currentTextBuffer' = <<>>
                /\ incomingPackets' = <<>>
  /\ UNCHANGED << notStreamVars, outgoingPackets, collecting, wasMessages, templateStreamPacket,
                  loopVars, hpc, stopCalls, cleanAssistantContent, downstream, enqLog >>

\* collecting after a Stream frame was appended to the buffer.
CollectingAfter(coll, buf) ==
  coll \/ (Len(buf) >= responseReplaceMaxTriggerLen /\ containsTrigger(buf))

\* needFlush after a Stream frame was appended to the buffer.
NeedFlush(coll, buf) ==
  ~coll /\ Len(buf) >= responseReplaceMaxTriggerLen /\ ~containsTrigger(buf)

\* StreamPacket.
WriteStream(text) ==
  /\ CanWrite
  /\ LET pkt   == Packet("Stream", RawStream(text), Len(accepted) + 1)
         buf   == currentTextBuffer \o extractMessage(pkt.RawData)
         inc   == Append(incomingPackets, pkt)
         flush == NeedFlush(collecting, buf)
     IN /\ accepted' = Append(accepted, pkt)
        /\ wasMessages' = TRUE
        /\ collecting' = CollectingAfter(collecting, buf)
        /\ IF flush
           THEN /\ pending' = inc
                /\ globalTextBuffer' = globalTextBuffer \o buf
                /\ currentTextBuffer' = <<>>
                /\ incomingPackets' = <<>>
           ELSE /\ pending' = <<>>
                /\ globalTextBuffer' = globalTextBuffer
                /\ currentTextBuffer' = buf
                /\ incomingPackets' = inc
  /\ UNCHANGED << notStreamVars, outgoingPackets, complete, templateStreamPacket,
                  templateFinishPacket, loopVars, hpc, stopCalls,
                  cleanAssistantContent, downstream, enqLog >>

\* ------------------------------------------------------- CloseAndProcess

\* The frames CloseAndProcess builds when a rule changed the collected text:
\* one clone of the template stream packet per token, then a clone of the
\* template finish packet.
SynthesizedPackets(replaced, tmplStream, tmplFinish) ==
  LET ids == TokenizerEncode(replaced)
  IN [i \in 1..Len(ids) |->
        Packet(tmplStream.PacketType,
               SetMessage(tmplStream.RawData, TokenizerDecode(ids[i])), 0)]
     \o << tmplFinish >>

\* The frames to send when collecting ended without a change: the retained
\* frames, and the withheld finish frame if there is one.
UnchangedPackets(retained, tmplFinish) ==
  IF /\ ~(Len(retained) > 0 /\ retained[Len(retained)].PacketType = "Finish")
     /\ tmplFinish.PacketType = "Finish"
  THEN Append(retained, tmplFinish)
  ELSE retained

\* Whether CloseAndProcess goes on after its first check.
CloseProceeds(done) == done

CloseAndProcess ==
  /\ hpc = "serving"
  /\ pending = <<>>
  /\ hpc' = "closed"
  /\ IF ~CloseProceeds(complete)
     THEN /\ cleanAssistantContent' = <<>>
          /\ UNCHANGED << incomingPackets, globalTextBuffer, currentTextBuffer,
                          templateStreamPacket, pending >>
     ELSE IF collecting /\ Len(currentTextBuffer) > 0
     THEN LET r == applyReplaceRulesToString(currentTextBuffer)
          IN /\ globalTextBuffer' = globalTextBuffer \o r.out
             /\ cleanAssistantContent' = globalTextBuffer'
             /\ currentTextBuffer' = currentTextBuffer
             /\ incomingPackets' = <<>>
             /\ IF r.changed
                THEN /\ templateStreamPacket' = incomingPackets[1]
                     /\ pending' = SynthesizedPackets(r.out, incomingPackets[1],
                                                      templateFinishPacket)
                ELSE /\ templateStreamPacket' = templateStreamPacket
                     /\ pending' = UnchangedPackets(incomingPackets, templateFinishPacket)
     ELSE /\ globalTextBuffer' = globalTextBuffer \o currentTextBuffer
          /\ currentTextBuffer' = <<>>
          /\ cleanAssistantContent' = globalTextBuffer'
          /\ pending' = incomingPackets
          /\ incomingPackets' = <<>>
          /\ UNCHANGED templateStreamPacket
  /\ UNCHANGED << notStreamVars, outgoingPackets, complete, collecting, wasMessages,
                  templateFinishPacket, loopVars, stopCalls, downstream,
                  accepted, enqLog >>

\* ------------------------------------------------------ StopOutgoingLoop

\* stopOnce.Do(close(stopCh)); the call then waits on doneCh.
StopCall ==
  /\ hpc \in {"closed", "stopped"}
  /\ pending = <<>>
  /\ stopCalls < MaxStopCalls
  /\ stopCalls' = stopCalls + 1
  /\ stopCh' = "closed"
  /\ hpc' = "stopping"
  /\ UNCHANGED << notStreamVars, incomingPackets, outgoingPackets, globalTextBuffer,
                  currentTextBuffer, complete, collecting, wasMessages,
                  templateStreamPacket, templateFinishPacket, notifyCh, doneCh,
                  loopPc, stopping, loopPkt, pending, cleanAssistantContent,
                  downstream, accepted, enqLog >>

\* <-w.doneCh: the call returns once doneCh is closed.
StopReturn ==
  /\ hpc = "stopping"
  /\ doneCh > 0
  /\ hpc' = "stopped"
  /\ UNCHANGED << notStreamVars, incomingPackets, outgoingPackets, globalTextBuffer,
                  currentTextBuffer, complete, collecting, wasMessages,
                  templateStreamPacket, templateFinishPacket, loopVars, pending,
                  stopCalls, cleanAssistantContent, downstream, accepted, enqLog >>

\* ------------------------------------------------------------ the stream

\* NewResponseCollector: empty buffers, open channels, the loop started.
StreamInit ==
  /\ incomingPackets = <<>>
  /\ outgoingPackets = <<>>
  /\ globalTextBuffer = <<>>
  /\ currentTextBuffer = <<>>
  /\ complete = FALSE
  /\ collecting = FALSE
  /\ wasMessages = FALSE
  /\ templateStreamPacket = ZeroPacket
  /\ templateFinishPacket = ZeroPacket
  /\ notifyCh = 0
  /\ stopCh = "open"
  /\ doneCh = 0
  /\ loopPc = "top"
  /\ stopping = FALSE
  /\ loopPkt = ZeroPacket
  /\ hpc = "serving"
  /\ pending = <<>>
  /\ stopCalls = 0
  /\ cleanAssistantContent = <<>>
  /\ downstream = <<>>
  /\ accepted = <<>>
  /\ enqLog = <<>>

Handler ==
  \/ WriteOther
  \/ \E text \in DirectTexts : WriteDirect(text)
  \/ WriteFinish
  \/ \E text \in StreamTexts : WriteStream(text)
  \/ EnqueuePacket
  \/ CloseAndProcess
  \/ StopCall
  \/ StopReturn

\* ---------------------------------------------------------- the IDF store

\* Number of addDocumentToIDF / removeDocumentFromIDF calls in one run.
MaxIDFOps == 4

\* Config.TokenBufferReserve of the modelled configuration (percent).
TokenBufferReserve == 0

\* Document bodies, each given as the token ids tokenIDs(body) returns.
Bodies == { <<1>>, <<2>>, <<1, 2>>, <<1, 2, 1>> }

\* ceil(len(tokens) * (1 + reserve/100)), never negative.
calculateTokensWithReserve(ids) ==
  LET adjusted == (Len(ids) * (100 + TokenBufferReserve) + 99) \div 100
  IN IF adjusted < 0 THEN 0 ELSE adjusted

\* A document as the callers pass it: body, token count (hash = sha512(body)).
Document(body) == [body |-> body, tokenCount |-> calculateTokensWithReserve(body)]

RECURSIVE GCD(_, _)
GCD(a, b) == IF b = 0 THEN a ELSE GCD(b, a % b)

\* The fraction num/den (den > 0) in lowest terms.
Fraction(num, den) ==
  LET g == GCD(IF num < 0 THEN -num ELSE num, den)
  IN << num \div g, den \div g >>

\* The IDF weight written for a key with document frequency df.  The weight
\* log1p(x) is represented by x as a fraction in lowest terms: log1p is
\* injective, so two weights are equal exactly when their fractions are.
idfFormula(N, df) ==
  IF N > 0
    THEN IF UseBM25IDF
           THEN Fraction(2 * N - 2 * df + 1, 2 * df + 1)
           ELSE Fraction(N, 1 + df)
    ELSE << 0, 1 >>

\* A Go map read: the zero value for an absent key.
MapGet(m, k) == IF k \in DOMAIN m THEN m[k] ELSE 0

\* DF[k]++ when adding; DF[k]-- when removing, not below zero.
countAfter(df, k, mode) ==
  IF mode > 0 THEN MapGet(df, k) + 1
  ELSE IF MapGet(df, k) > 0 THEN MapGet(df, k) - 1 ELSE 0

\* The DF map after the loop over the unique keys of the document: a key
\* whose count reached zero is deleted, every other key of the map is kept.
updateDF(df, keys, mode) ==
  LET kept == (DOMAIN df \ keys) \cup { k \in keys : countAfter(df, k, mode) > 0 }
  IN [k \in kept |-> IF k \in keys THEN countAfter(df, k, mode) ELSE df[k]]

\* The IDF map after the same loop: only the keys of the document are
\* recomputed (at the new N), the others keep the value they had.
updateIDF(idf, df, keys, mode, N) ==
  LET kept == (DOMAIN idf \ keys) \cup { k \in keys : countAfter(df, k, mode) > 0 }
  IN [k \in kept |->
        IF k \in keys THEN idfFormula(N, countAfter(df, k, mode)) ELSE idf[k]]

\* xxhash over the ids of one n-gram, taken as collision free: the n-gram.
ngramHash(ids) == ids

\* The hashes of the n-grams of ids (none when len(ids) < n).
ngramHashes(ids, n) ==
  { ngramHash(SubSeq(ids, i, i + n - 1)) : i \in 1..(Len(ids) - n + 1) }

\* The first part without the N > 0 test of a removal.
updateCountsUnguarded(st, tokenCount, mode) ==
  [st EXCEPT !.N = st.N + mode, !.TotalTokens = st.TotalTokens + mode * tokenCount]

\* The first part of updateDocumentInIDF: the document count and the token total.
updateCounts(st, tokenCount, mode) ==
  LET N == IF mode > 0 THEN st.N + 1
           ELSE IF st.N > 0 THEN st.N - 1 ELSE st.N
      TotalTokens ==
        IF mode > 0 THEN st.TotalTokens + tokenCount
        ELSE IF st.N > 0
               THEN IF st.TotalTokens >= tokenCount
                      THEN st.TotalTokens - tokenCount ELSE 0
               ELSE st.TotalTokens
  IN [st EXCEPT !.N = N, !.TotalTokens = TotalTokens]

\* The loop over the tokens, at the document count the first part left.
updateTokens(st, ids, mode) ==
  LET seenTokens == { ids[i] : i \in 1..Len(ids) }
  IN [st EXCEPT !.DF  = updateDF(st.DF, seenTokens, mode),
                !.IDF = updateIDF(st.IDF, st.DF, seenTokens, mode, st.N)]

\* The loop over the bigrams and trigrams.
updateNgrams(st, ids, mode) ==
  LET seenNgrams == ngramHashes(ids, 2) \cup ngramHashes(ids, 3)
  IN [st EXCEPT !.NgramDF  = updateDF(st.NgramDF, seenNgrams, mode),
                !.NgramIDF = updateIDF(st.NgramIDF, st.NgramDF, seenNgrams, mode, st.N)]

\* updateDocumentInIDF on the store st; mode = +1 adds, mode = -1 removes.
updateDocumentInIDF(st, ids, tokenCount, mode) ==
  updateNgrams(updateTokens(updateCounts(st, tokenCount, mode), ids, mode), ids, mode)

addDocumentToIDF(st, body, tokenCount) == updateDocumentInIDF(st, body, tokenCount, 1)

removeDocumentFromIDF(st, body, tokenCount) == updateDocumentInIDF(st, body, tokenCount, -1)

\* The store of a fresh installation: no document, empty maps.
EmptyIDFStore ==
  [ N |-> 0, TotalTokens |-> 0, DF |-> << >>, IDF |-> << >>,
    NgramDF |-> << >>, NgramIDF |-> << >> ]

IDFInit ==
  /\ IDFStore = EmptyIDFStore
  /\ IDFChanged = FALSE
  /\ UseBM25IDF \in BOOLEAN
  /\ corpus = [b \in Bodies |-> 0]
  /\ idfOps = 0

\* A caller adds the document with body b to the statistics.
AddDocument(b) ==
  /\ idfOps < MaxIDFOps
  /\ IDFStore' = addDocumentToIDF(IDFStore, b, Document(b).tokenCount)
  /\ IDFChanged' = TRUE
  /\ corpus' = [corpus EXCEPT ![b] = @ + 1]
  /\ idfOps' = idfOps + 1
  /\ UNCHANGED << notIDFVars, UseBM25IDF >>

\* A caller removes a document that was added before.
RemoveDocument(b) ==
  /\ idfOps < MaxIDFOps
  /\ corpus[b] > 0
  /\ IDFStore' = removeDocumentFromIDF(IDFStore, b, Document(b).tokenCount)
  /\ IDFChanged' = TRUE
  /\ corpus' = [corpus EXCEPT ![b] = @ - 1]
  /\ idfOps' = idfOps + 1
  /\ UNCHANGED << notIDFVars, UseBM25IDF >>

\* A caller removes the document with body b, added before or not.
RemoveAnyDocument(b) ==
  /\ idfOps < MaxIDFOps
  /\ IDFStore' = removeDocumentFromIDF(IDFStore, b, Document(b).tokenCount)
  /\ IDFChanged' = TRUE
  /\ corpus' = [corpus EXCEPT ![b] = IF @ > 0 THEN @ - 1 ELSE 0]
  /\ idfOps' = idfOps + 1
  /\ UNCHANGED << notIDFVars, UseBM25IDF >>

IDFAnyNext ==
  \/ \E b \in Bodies : AddDocument(b)
  \/ \E b \in Bodies : RemoveAnyDocument(b)

IDFNext ==
  \/ \E b \in Bodies : AddDocument(b)
  \/ \E b \in Bodies : RemoveDocument(b)

\* -------------------------------------------- the IDF store and its lock

\* Number of updateDocumentInIDF calls the handlers make while the store is
\* watched by a reader or by the snapshots.
MaxUpdates == 2

\* Bodies of the documents those calls add or remove.
SaveBodies == { <<1>>, <<1, 2>> }

\* The process runs: no fatal runtime error has ended it.
Alive == spc # "fatal"

\* What the rerank reads of the store.
ViewOf(st) ==
  [ IDF |-> st.IDF, N |-> st.N, TotalTokens |-> st.TotalTokens, DF |-> st.DF,
    NgramIDF |-> st.NgramIDF ]

\* updateDocumentInIDF: idfMu.Lock(); the unlock is deferred.  A removal is
\* of a document added before.
UpdateLock(b, mode) ==
  /\ Alive
  /\ spc # "done"
  /\ upc = "idle"
  /\ idfOps < MaxUpdates
  /\ idfMu = "free"
  /\ mode < 0 => corpus[b] > 0
  /\ idfMu' = "update"
  /\ upc' = "counts"
  /\ udoc' = [body |-> b, mode |-> mode]
  /\ idfOps' = idfOps + 1
  /\ UNCHANGED << notSaveVars, IDFStore, IDFChanged, UseBM25IDF, corpus,
                  idfAutoSaveStopChan, rpc, seen, idfFile, lastFile, apc, ticks,
                  spc, scopy, sdata, committed, ioErrors >>

\* N and TotalTokens are updated.
UpdateCounts ==
  /\ Alive
  /\ upc = "counts"
  /\ IDFStore' = updateCounts(IDFStore, Document(udoc.body).tokenCount, udoc.mode)
  /\ upc' = "tokens"
  /\ UNCHANGED << notSaveVars, IDFChanged, UseBM25IDF, corpus, idfOps, idfMu,
                  idfAutoSaveStopChan, udoc, rpc, seen, idfFile, lastFile, apc,
                  ticks, spc, scopy, sdata, committed, ioErrors >>

\* DF and IDF are updated for the tokens of the document.
UpdateTokens ==
  /\ Alive
  /\ upc = "tokens"
  /\ IDFStore' = updateTokens(IDFStore, udoc.body, udoc.mode)
  /\ upc' = "ngrams"
  /\ UNCHANGED << notSaveVars, IDFChanged, UseBM25IDF, corpus, idfOps, idfMu,
                  idfAutoSaveStopChan, udoc, rpc, seen, idfFile, lastFile, apc,
                  ticks, spc, scopy, sdata, committed, ioErrors >>

\* NgramDF and NgramIDF are updated for its bigrams and trigrams.
UpdateNgrams ==
  /\ Alive
  /\ upc = "ngrams"
  /\ IDFStore' = updateNgrams(IDFStore, udoc.body, udoc.mode)
  /\ upc' = "return"
  /\ UNCHANGED << notSaveVars, IDFChanged, UseBM25IDF, corpus, idfOps, idfMu,
                  idfAutoSaveStopChan, udoc, rpc, seen, idfFile, lastFile, apc,
                  ticks, spc, scopy, sdata, committed, ioErrors >>

\* IDFChanged = true, return: the deferred idfMu.Unlock() runs.
UpdateReturn ==
  /\ Alive
  /\ upc = "return"
  /\ IDFChanged' = TRUE
  /\ idfMu' = "free"
  /\ upc' = "idle"
  /\ corpus' = [corpus EXCEPT ![udoc.body] = @ + udoc.mode]
  /\ committed' = Append(committed, IDFStore)
  /\ UNCHANGED << notSaveVars, IDFStore, UseBM25IDF, idfOps, idfAutoSaveStopChan,
                  udoc, rpc, seen, idfFile, lastFile, apc, ticks, spc, scopy,
                  sdata, ioErrors >>

UpdateDocument ==
  \/ \E b \in SaveBodies, mode \in { 1, -1 } : UpdateLock(b, mode)
  \/ UpdateCounts
  \/ UpdateTokens
  \/ UpdateNgrams
  \/ UpdateReturn

\* updateFeaturesForCandidate, in the order of its statements.
\* weightedKeywordOverlapIDs reads IDFStore.IDF; no lock is taken.
ReadWeights ==
  /\ rpc = "weights"
  /\ seen' = [seen EXCEPT !.IDF = IDFStore.IDF]
  /\ rpc' = "avgdl"
  /\ UNCHANGED << notSaveVars, idfVars, idfMu, idfAutoSaveStopChan, upc, udoc,
                  idfFile, lastFile, apc, ticks, spc, scopy, sdata, committed,
                  ioErrors >>

\* avgdl is computed from IDFStore.TotalTokens and IDFStore.N, and the store
\* struct is copied for the call of bm25Score; no lock is taken.
ReadAvgdl ==
  /\ rpc = "avgdl"
  /\ seen' = [seen EXCEPT !.N = IDFStore.N, !.TotalTokens = IDFStore.TotalTokens]
  /\ rpc' = "bm25"
  /\ UNCHANGED << notSaveVars, idfVars, idfMu, idfAutoSaveStopChan, upc, udoc,
                  idfFile, lastFile, apc, ticks, spc, scopy, sdata, committed,
                  ioErrors >>

\* bm25Score: idfMu.RLock(), the DF map of the copy is read, RUnlock().
ReadBM25 ==
  /\ rpc = "bm25"
  /\ idfMu = "free"
  /\ seen' = [seen EXCEPT !.DF = IDFStore.DF]
  /\ rpc' = "ngrams"
  /\ UNCHANGED << notSaveVars, idfVars, idfMu, idfAutoSaveStopChan, upc, udoc,
                  idfFile, lastFile, apc, ticks, spc, scopy, sdata, committed,
                  ioErrors >>

\* weightedNgramOverlap reads IDFStore.NgramIDF; no lock is taken.
ReadNgramWeights ==
  /\ rpc = "ngrams"
  /\ seen' = [seen EXCEPT !.NgramIDF = IDFStore.NgramIDF]
  /\ rpc' = "done"
  /\ UNCHANGED << notSaveVars, idfVars, idfMu, idfAutoSaveStopChan, upc, udoc,
                  idfFile, lastFile, apc, ticks, spc, scopy, sdata, committed,
                  ioErrors >>

updateFeaturesForCandidate == ReadWeights \/ ReadAvgdl \/ ReadBM25 \/ ReadNgramWeights

\* --------------------------------------------------- snapshots of the store

\* Number of ticks the autosave goroutine receives.
MaxTicks == 2

\* loadIDF: the store a start of the process gets from the snapshot file, the
\* empty store when there is no file.  A file is << >> when it does not
\* exist and << data >> otherwise.
loadIDF(file) == IF file = << >> THEN EmptyIDFStore ELSE file[1]

\* The autosave goroutine (startIDFAutoSave).
\* case <-ticker.C: idfMu.Lock(); IDFChanged is false; Unlock().
AutoTickClean ==
  /\ Alive
  /\ apc = "select"
  /\ ticks < MaxTicks
  /\ idfMu = "free"
  /\ ~IDFChanged
  /\ ticks' = ticks + 1
  /\ UNCHANGED << notSaveVars, idfVars, idfMu, idfAutoSaveStopChan, upc, udoc, rpc,
                  seen, idfFile, lastFile, apc, spc, scopy, sdata, committed,
                  ioErrors >>

\* case <-ticker.C: idfMu.Lock(); IDFChanged is true: saveIDF(false) begins.
AutoTickDirty ==
  /\ Alive
  /\ apc = "select"
  /\ ticks < MaxTicks
  /\ idfMu = "free"
  /\ IDFChanged
  /\ ticks' = ticks + 1
  /\ idfMu' = "autosave"
  /\ apc' = "write"
  /\ UNCHANGED << notSaveVars, idfVars, idfAutoSaveStopChan, upc, udoc, rpc, seen,
                  idfFile, lastFile, spc, scopy, sdata, committed, ioErrors >>

\* saveIDF(false): the store is marshalled and written to the ".last" file;
\* when the write fails the file is removed, the flag stays and the lock goes.
AutoWrite(ok) ==
  /\ Alive
  /\ apc = "write"
  /\ IF ok
       THEN /\ lastFile' = << IDFStore >>
            /\ apc' = "rename"
            /\ UNCHANGED << idfMu, ioErrors >>
       ELSE /\ lastFile' = << >>
            /\ apc' = "select"
            /\ idfMu' = "free"
            /\ ioErrors' = ioErrors + 1
  /\ UNCHANGED << notSaveVars, idfVars, idfAutoSaveStopChan, upc, udoc, rpc, seen,
                  idfFile, ticks, spc, scopy, sdata, committed >>

\* os.Rename(last, IDFFile), which fails when there is no ".last" file; on
\* success IDFChanged = false; then idfMu.Unlock().
AutoRename(ok) ==
  /\ Alive
  /\ apc = "rename"
  /\ IF ok /\ lastFile # << >>
       THEN /\ idfFile' = lastFile
            /\ lastFile' = << >>
            /\ IDFChanged' = FALSE
            /\ UNCHANGED ioErrors
       ELSE /\ ioErrors' = ioErrors + 1
            /\ UNCHANGED << idfFile, lastFile, IDFChanged >>
  /\ idfMu' = "free"
  /\ apc' = "select"
  /\ UNCHANGED << notSaveVars, IDFStore, UseBM25IDF, corpus, idfOps,
                  idfAutoSaveStopChan, upc, udoc, rpc, seen, ticks, spc, scopy,
                  sdata, committed >>

\* case <-idfAutoSaveStopChan: return.
AutoStop ==
  /\ Alive
  /\ apc = "select"
  /\ idfAutoSaveStopChan = "closed"
  /\ apc' = "exited"
  /\ UNCHANGED << notSaveVars, idfVars, idfMu, idfAutoSaveStopChan, upc, udoc, rpc,
                  seen, idfFile, lastFile, ticks, spc, scopy, sdata, committed,
                  ioErrors >>

startIDFAutoSave ==
  \/ AutoTickClean
  \/ AutoTickDirty
  \/ \E ok \in BOOLEAN : AutoWrite(ok)
  \/ \E ok \in BOOLEAN : AutoRename(ok)
  \/ AutoStop

\* shutdownApp; the handlers still running go on (inbound.Shutdown gave up
\* after its timeout).
\* saveIDF(true): RLock(); store := appCtx.IDFStore; RUnlock().  The copy
\* holds N and TotalTokens and shares the four maps with the store.
ShutCopy ==
  /\ spc = "serving"
  /\ idfMu = "free"
  /\ scopy' = [N |-> IDFStore.N, TotalTokens |-> IDFStore.TotalTokens]
  /\ spc' = "marshal"
  /\ UNCHANGED << notSaveVars, idfVars, idfMu, idfAutoSaveStopChan, upc, udoc, rpc,
                  seen, idfFile, lastFile, apc, ticks, sdata, committed, ioErrors >>

\* json.Marshal(store): the maps are read as they are by now, the lock being
\* released.
ShutMarshal ==
  /\ spc = "marshal"
  /\ sdata' = << [IDFStore EXCEPT !.N = scopy.N, !.TotalTokens = scopy.TotalTokens] >>
  /\ spc' = "write"
  /\ UNCHANGED << notSaveVars, idfVars, idfMu, idfAutoSaveStopChan, upc, udoc, rpc,
                  seen, idfFile, lastFile, apc, ticks, scopy, committed, ioErrors >>

\* json.Marshal iterates a map an update is writing: the runtime may end the
\* process (concurrent map iteration and map write).
ShutMarshalFatal ==
  /\ spc = "marshal"
  /\ upc \in { "tokens", "ngrams" }
  /\ spc' = "fatal"
  /\ UNCHANGED << notSaveVars, idfVars, idfMu, idfAutoSaveStopChan, upc, udoc, rpc,
                  seen, idfFile, lastFile, apc, ticks, scopy, sdata, committed,
                  ioErrors >>

\* os.WriteFile(last, data); a failed write removes the file and ends the save.
ShutWrite(ok) ==
  /\ spc = "write"
  /\ IF ok
       THEN /\ lastFile' = sdata
            /\ spc' = "rename"
            /\ UNCHANGED ioErrors
       ELSE /\ lastFile' = << >>
            /\ spc' = "close"
            /\ ioErrors' = ioErrors + 1
  /\ UNCHANGED << notSaveVars, idfVars, idfMu, idfAutoSaveStopChan, upc, udoc, rpc,
                  seen, idfFile, apc, ticks, scopy, sdata, committed >>

\* os.Rename(last, IDFFile).
ShutRename(ok) ==
  /\ spc = "rename"
  /\ IF ok /\ lastFile # << >>
       THEN /\ idfFile' = lastFile
            /\ lastFile' = << >>
            /\ UNCHANGED ioErrors
       ELSE /\ ioErrors' = ioErrors + 1
            /\ UNCHANGED << idfFile, lastFile >>
  /\ spc' = "close"
  /\ UNCHANGED << notSaveVars, idfVars, idfMu, idfAutoSaveStopChan, upc, udoc, rpc,
                  seen, apc, ticks, scopy, sdata, committed >>

\* close(idfAutoSaveStopChan); idfAutoSaveWG.Wait() begins.
ShutClose ==
  /\ spc = "close"
  /\ idfAutoSaveStopChan' = "closed"
  /\ spc' = "wait"
  /\ UNCHANGED << notSaveVars, idfVars, idfMu, upc, udoc, rpc, seen, idfFile,
                  lastFile, apc, ticks, scopy, sdata, committed, ioErrors >>

\* Wait() returns when the autosave goroutine has exited; the process ends.
ShutDone ==
  /\ spc = "wait"
  /\ apc = "exited"
  /\ spc' = "done"
  /\ UNCHANGED << notSaveVars, idfVars, idfMu, idfAutoSaveStopChan, upc, udoc, rpc,
                  seen, idfFile, lastFile, apc, ticks, scopy, sdata, committed,
                  ioErrors >>

shutdownApp ==
  \/ ShutCopy
  \/ ShutMarshal
  \/ ShutMarshalFatal
  \/ \E ok \in BOOLEAN : ShutWrite(ok)
  \/ \E ok \in BOOLEAN : ShutRename(ok)
  \/ ShutClose
  \/ ShutDone

\* After initApp: the lock free, no snapshot file, the autosave goroutine
\* started, a rerank about to read.
SaveInit ==
  /\ idfMu = "free"
  /\ idfAutoSaveStopChan = "open"
  /\ upc = "idle"
  /\ udoc = [body |-> << >>, mode |-> 0]
  /\ rpc = "weights"
  /\ seen = ViewOf(EmptyIDFStore)
  /\ idfFile = << >>
  /\ lastFile = << >>
  /\ apc = "select"
  /\ ticks = 0
  /\ spc = "serving"
  /\ scopy = [N |-> 0, TotalTokens |-> 0]
  /\ sdata = << >>
  /\ committed = << EmptyIDFStore >>
  /\ ioErrors = 0

\* ------------------------------------------------ ingestion (vector store)

\* Number of responses whose turn is stored (processOutbound calls).
MaxRequests == 2

\* Clean user contents and clean assistant contents of the stored turns.
UserBodies == { <<1>> }
AssistantBodies == { <<2>>, <<1, 2>> }
\* file ids and bodies of the attachments a request may carry.
AttachmentIDs == { "f", "g" }
AttachmentBodies == { <<2>>, <<1, 2, 1>> }

\* sha512sum, taken as collision free: hashes are only compared for equality.
sha512sum(body) == << "sha512", body >>

Attachment(id, body) == [ID |-> id, Body |-> body, Hash |-> sha512sum(body)]

Attachments == { Attachment(id, b) : id \in AttachmentIDs, b \in AttachmentBodies }

\* The attachment lists of a request: none, one or two attachments.
AttachmentLists ==
  { << >> } \cup { << a >> : a \in Attachments }
            \cup { << a, b >> : a \in Attachments, b \in Attachments }

\* uuid.NewString(): an id no stored point has.
NewPointID(pts) ==
  CHOOSE n \in 1..(Cardinality(DOMAIN pts) + 1) : n \notin DOMAIN pts

\* upsertPoint: the document is added to the IDF store first, then the point
\* is upserted in the vector store; s.upserts counts the upsert calls of the
\* request and call number failAt fails (withDB or Upsert returns an error).
upsertPoint(s, body, cleanTokenCount, hash, fileID, pointID, failAt) ==
  LET n  == s.upserts + 1
      ok == n # failAt
      pt == [body |-> body, cleanTokenCount |-> cleanTokenCount,
             hash |-> hash, fileID |-> fileID]
  IN [ idf     |-> addDocumentToIDF(s.idf, body, cleanTokenCount),
       pts     |-> IF ok
                     THEN [p \in DOMAIN s.pts \cup {pointID} |->
                             IF p = pointID THEN pt ELSE s.pts[p]]
                     ELSE s.pts,
       upserts |-> n,
       err     |-> ~ok ]

RECURSIVE planList(_, _, _, _)
\* One result list of planAttachmentSync: the first attachment of each id,
\* to insert when no stored point carries the file id (OldPointID "-", here
\* 0), to replace when the stored point's hash differs.
planList(attachments, processed, pts, replace) ==
  IF attachments = << >> THEN << >>
  ELSE LET att == Head(attachments)
           existing == { p \in DOMAIN pts : pts[p].fileID = att.ID }
           rest == planList(Tail(attachments), processed \cup {att.ID}, pts, replace)
       IN IF att.ID = "" \/ att.ID \in processed THEN rest
          ELSE IF existing = {}
            THEN IF replace THEN rest
                 ELSE << [Attachment |-> att, OldPointID |-> 0, OldHash |-> << >>,
                          OldCleanTokenCount |-> 0] >> \o rest
            ELSE LET p == CHOOSE p \in existing : TRUE
                 IN IF replace /\ pts[p].hash # att.Hash
                      THEN << [Attachment |-> att, OldPointID |-> p,
                               OldHash |-> pts[p].hash,
                               OldCleanTokenCount |-> pts[p].cleanTokenCount] >> \o rest
                      ELSE rest

\* planAttachmentSync without its comparison of the hashes: nothing is
\* replaced.
planAttachmentSyncNoReplace(attachments, pts) ==
  [ toInsert  |-> planList(attachments, {}, pts, FALSE),
    toReplace |-> << >> ]

planAttachmentSync(attachments, pts) ==
  [ toInsert  |-> planList(attachments, {}, pts, FALSE),
    toReplace |-> planList(attachments, {}, pts, TRUE) ]

RECURSIVE proc(_, _, _)
\* storeAttachments' proc: for a replacement the old body is fetched and
\* removed from the IDF store and the old point id is reused; then upsertPoint.
proc(listAttachments, s, failAt) ==
  IF listAttachments = << >> \/ s.err THEN s
  ELSE LET att     == Head(listAttachments)
           replace == att.OldPointID # 0
           pointID == IF replace THEN att.OldPointID ELSE NewPointID(s.pts)
           removed ==
             IF replace
               THEN [s EXCEPT !.idf = removeDocumentFromIDF(
                        s.idf, s.pts[att.OldPointID].body, att.OldCleanTokenCount)]
               ELSE s
           stored  == upsertPoint(removed, att.Attachment.Body,
                                  calculateTokensWithReserve(att.Attachment.Body),
                                  att.Attachment.Hash, att.Attachment.ID, pointID, failAt)
       IN proc(Tail(listAttachments), stored, failAt)

\* storeAttachments: the replacements are processed before the insertions.
storeAttachments(attachments, s, failAt) ==
  LET plan == planAttachmentSync(attachments, s.pts)
  IN proc(plan.toInsert, proc(plan.toReplace, s, failAt), failAt)

\* processOutbound: the user turn, the assistant turn, then the attachments;
\* the first error ends it.
processOutbound(idf, pts, user, assistant, attachments, failAt) ==
  LET s0 == [idf |-> idf, pts |-> pts, upserts |-> 0, err |-> FALSE]
      s1 == upsertPoint(s0, user, calculateTokensWithReserve(user),
                        sha512sum(user), "", NewPointID(s0.pts), failAt)
      s2 == IF s1.err THEN s1
            ELSE upsertPoint(s1, assistant, calculateTokensWithReserve(assistant),
                             sha512sum(assistant), "", NewPointID(s1.pts), failAt)
  IN IF s2.err THEN s2 ELSE storeAttachments(attachments, s2, failAt)

IngestInit ==
  /\ points = << >>
  /\ requests = 0

\* What storing a turn leaves alone, the IDF store and the plan apart.
notTurnVars == << streamVars, packVars, saveVars, ruleVars, dbVars, storeVars, feedVars, rerankVars, featVars >>

\* processOutbound on the stores as they are.
StoreTurn(user, assistant, attachments, failAt) ==
  /\ LET s == processOutbound(IDFStore, points, user, assistant, attachments, failAt)
     IN /\ IDFStore' = s.idf
        /\ points' = s.pts
  /\ IDFChanged' = TRUE
  /\ requests' = requests + 1
  /\ UNCHANGED << notTurnVars, UseBM25IDF, corpus, idfOps >>

\* One response has been delivered and its turn is stored.
ProcessOutbound(user, assistant, attachments, failAt) ==
  /\ requests < MaxRequests
  /\ StoreTurn(user, assistant, attachments, failAt)
  /\ UNCHANGED planVars

IngestNext ==
  \E user \in UserBodies, assistant \in AssistantBodies,
     attachments \in AttachmentLists :
       \E failAt \in 0..(2 + Len(attachments)) :
          ProcessOutbound(user, assistant, attachments, failAt)

\* --------------------------------------------------------- context packer

\* Number of chat requests handled in one run.
MaxInbound == 1

\* Config.MainModelWindowSize, Config.FeedAugmentationPercent (tokens, percent).
MainModelWindowSize == 24
FeedAugmentationPercent == 50

\* Config.Temperature, as the text json.Marshal writes for it.
Temperature == << "0" >>

\* Config.SystemMessagePatch: phrases removed, (old, new) replacements,
\* (search, insert) insertions, lines appended, lines prepended.
SystemMessagePatch ==
  [ Remove     |-> << << "x" >> >>,
    Replace    |-> << >>,
    AddAfter   |-> << >>,
    AddToEnd   |-> << << "r" >> >>,
    AddToBegin |-> << >> ]

\* calculateTokens: the tokenizer gives one token per character or JSON mark.
calculateTokens(text) == Len(text)

\* appConsts.MessagesWrapperSize: the tokens of `"messages":[` and of `],`.
MessagesWrapperSize ==
  calculateTokens(<< "messages", "[" >>) + calculateTokens(<< "]", "," >>)

RECURSIVE ApplyPairs(_, _)
\* strings.ReplaceAll for each (old, new) pair in turn; an empty old is skipped.
ApplyPairs(msg, pairs) ==
  IF pairs = << >> THEN msg
  ELSE LET old == Head(pairs)[1]
           new == Head(pairs)[2]
       IN ApplyPairs(IF old = << >> THEN msg ELSE ReplaceAllString(msg, old, new),
                     Tail(pairs))

RECURSIVE Lines(_)
\* Each line preceded by a newline.
Lines(ls) == IF ls = << >> THEN << >> ELSE << "\n" >> \o Head(ls) \o Lines(Tail(ls))

\* patchSystemMessage: remove, replace, insert after, append, prepend.
patchSystemMessage(systemMessage) ==
  LET cfg      == SystemMessagePatch
      removed  == ApplyPairs(systemMessage,
                    [i \in 1..Len(cfg.Remove) |-> << cfg.Remove[i], << >> >>])
      replaced == ApplyPairs(removed, cfg.Replace)
      inserted == ApplyPairs(replaced,
                    [i \in 1..Len(cfg.AddAfter) |->
                       << cfg.AddAfter[i][1], cfg.AddAfter[i][1] \o cfg.AddAfter[i][2] >>])
  IN Lines(cfg.AddToBegin) \o inserted \o Lines(cfg.AddToEnd)

\* A message of the request: a JSON object with role and content, or (object
\* = FALSE) a bare JSON string.  The content of an object is a JSON string
\* (text = TRUE) or another JSON value, given by its tokens.
Message(role, content) ==
  [role |-> role, content |-> content, object |-> TRUE, text |-> TRUE]

\* json.Marshal of one message, as the tokens the tokenizer makes of it.
marshalMessage(msg) ==
  IF msg.object THEN << "{", msg.role >> \o msg.content \o << "}" >>
  ELSE << "\"" >> \o msg.content \o << "\"" >>

\* json.Marshal of the request without "messages"; an absent temperature
\* field is the empty text.
marshalMeta(req) ==
  << "{" >> \o (IF req.temperature = << >> THEN << >>
                ELSE << "temperature" >> \o req.temperature) \o << "}" >>

calcMetaSize(req) == calculateTokensWithReserve(marshalMeta(req))

\* Size of messages[0] when its role is "system", with the comma that
\* follows it when there are more messages.
calcSystemMsgSize(req) ==
  LET systemMsg == req.messages[1]
      comma     == IF Len(req.messages) > 1 THEN << "," >> ELSE << >>
  IN IF systemMsg.role # "system" THEN [found |-> FALSE, size |-> 0]
     ELSE [found |-> TRUE,
           size  |-> calculateTokensWithReserve(marshalMessage(systemMsg) \o comma)]

\* Size of the last message, which must have role "user".
calcUserPromptSize(req) ==
  LET userPromptMsg == req.messages[Len(req.messages)]
  IN IF userPromptMsg.role # "user" THEN [err |-> TRUE, size |-> 0]
     ELSE [err |-> FALSE,
           size |-> calculateTokensWithReserve(marshalMessage(userPromptMsg))]

\* calcSizes: what is left of the window after the meta data, the system
\* message, the user prompt and the messages wrapper, split into the feed
\* share and the history share; an error when nothing is left.
calcSizes(req) ==
  LET system     == calcSystemMsgSize(req)
      user       == calcUserPromptSize(req)
      windowSize == MainModelWindowSize - calcMetaSize(req) - system.size
                      - user.size - MessagesWrapperSize
      feedSize   == (windowSize * FeedAugmentationPercent) \div 100
  IN IF user.err \/ windowSize < 0
       THEN [err |-> TRUE, feedSize |-> 0, historySize |-> 0, found |-> system.found]
       ELSE [err |-> FALSE, feedSize |-> feedSize,
             historySize |-> windowSize - feedSize, found |-> system.found]

\* normalizeText: lower case, and only letters, digits and punctuation kept.
normalizeText(s) ==
  LET lower(c) == IF c = "Q" THEN "q" ELSE IF c = "H" THEN "h" ELSE c
      kept(c)  == c \notin { " ", "\n" }
  IN SelectSeq([i \in 1..Len(s) |-> lower(s[i])], kept)

\* messageExists comparing the contents as they are.
messageExistsExact(req, content) ==
  \E i \in 1..Len(req.messages) :
     req.messages[i].text /\ req.messages[i].content = content

\* messageExists: some message of the request has the same normalized content.
messageExists(req, content) ==
  \E i \in 1..Len(req.messages) :
     /\ req.messages[i].text
     /\ normalizeText(req.messages[i].content) = normalizeText(content)

\* The message prepareFeeds makes of a payload: a file is wrapped in tags.
feedMessage(payload) ==
  Message(payload.Role,
          IF payload.Role = "rag-file"
            THEN << "<file>", payload.FileMeta.ID, payload.FileMeta.Path >>
                   \o payload.Body \o << "</file>" >>
            ELSE payload.Body)

RECURSIVE prepareFeedsFrom(_, _, _)
\* The loop of prepareFeeds: a payload that does not fit what is left of the
\* feed share, or whose body is already in the request, is skipped.
prepareFeedsFrom(feedSize, relevantContent, req) ==
  IF relevantContent = << >> THEN [feeds |-> << >>, feedSize |-> feedSize]
  ELSE LET payload == Head(relevantContent)
       IN IF feedSize < payload.TokenCount \/ messageExists(req, payload.Body)
            THEN prepareFeedsFrom(feedSize, Tail(relevantContent), req)
            ELSE LET rest == prepareFeedsFrom(feedSize - payload.TokenCount,
                                              Tail(relevantContent), req)
                 IN [feeds |-> << feedMessage(payload) >> \o rest.feeds,
                     feedSize |-> rest.feedSize]

\* prepareFeeds: the feeds, and the history share grown by the unused feed share.
prepareFeeds(historySize, feedSize, relevantContent, req) ==
  LET r == prepareFeedsFrom(feedSize, relevantContent, req)
  IN [feeds |-> r.feeds, historySize |-> historySize + r.feedSize]

RECURSIVE prepareHistoryFrom(_, _, _, _)
\* The loop of prepareHistory, from message i down to message endIdx: it stops
\* at the first message that does not fit and fails on one that is no object.
prepareHistoryFrom(historySize, i, endIdx, req) ==
  IF i < endIdx THEN [err |-> FALSE, history |-> << >>]
  ELSE LET msg     == req.messages[i]
           msgSize == calculateTokensWithReserve(marshalMessage(msg))
       IN IF ~msg.object THEN [err |-> TRUE, history |-> << >>]
          ELSE IF historySize < msgSize THEN [err |-> FALSE, history |-> << >>]
          ELSE LET rest == prepareHistoryFrom(historySize - msgSize, i - 1, endIdx, req)
               IN [err |-> rest.err, history |-> << msg >> \o rest.history]

\* prepareHistory: newest first, from the message before the user prompt down
\* to the one after the system message (positions are 1-based here).
prepareHistory(historySize, hasSystemMsg, req) ==
  prepareHistoryFrom(historySize, Len(req.messages) - 1,
                     IF hasSystemMsg THEN 2 ELSE 1, req)

\* A sequence back to front.
Reverse(s) == [i \in 1..Len(s) |-> s[Len(s) + 1 - i]]

\* updateReq: system message, feeds from low to high relevance, history from
\* oldest to newest, user prompt.
updateReq(systemMsg, userPromptMsg, history, feeds, req) ==
  [req EXCEPT !.messages = systemMsg \o Reverse(feeds) \o Reverse(history)
                             \o << userPromptMsg >>]

\* An HTTP body: JSON of a request (temperature, messages) or other text.
JSONBody(temperature, messages) ==
  [json |-> TRUE, text |-> << >>, temperature |-> temperature, messages |-> messages]

TextBody(text) ==
  [json |-> FALSE, text |-> text, temperature |-> << >>, messages |-> << >>]

\* json.Unmarshal into the req map, and json.Marshal of the req map.
jsonUnmarshal(data) == [temperature |-> data.temperature, messages |-> data.messages]

jsonMarshal(req) == JSONBody(req.temperature, req.messages)

\* What processInbound returns as body on an error path, given the inbound
\* data and the req map as it is by then: the error path marshals req.
forwardMarshalled(data, req) == jsonMarshal(req)

\* What processInbound returns as body on an error path: `return data, ...`.
forwardOnError(data, req) == data

\* processMessages: an error unless the last message is a user message
\* whose content is a string that is not blank.
processMessages(req) ==
  LET msgs    == req.messages
      lastMsg == msgs[Len(msgs)]
      blank   == \A i \in 1..Len(lastMsg.content) : lastMsg.content[i] \in { " ", "\n" }
  IN [err |-> \/ Len(msgs) = 0
              \/ ~lastMsg.object
              \/ lastMsg.role # "user"
              \/ ~lastMsg.text
              \/ blank]

\* feedPrompt: sizes first, then the system message is patched in place when
\* its content is a string and given up (systemMsg = nil) when it is not,
\* then the embedding, the search, the feeds, the history and the new
\* message list.  req is the map as feedPrompt leaves it.
feedPrompt(req, embedOK, search) ==
  LET sizes   == calcSizes(req)
      hasSystemMsg == sizes.found /\ req.messages[1].text
      patched == IF hasSystemMsg
                   THEN [req EXCEPT !.messages[1].content = patchSystemMessage(@)]
                   ELSE req
      f       == prepareFeeds(sizes.historySize, sizes.feedSize, search.payloads, patched)
      h       == prepareHistory(f.historySize, hasSystemMsg, patched)
      systemMsg == IF hasSystemMsg THEN << patched.messages[1] >> ELSE << >>
  IN IF sizes.err THEN [err |-> TRUE, reason |-> "sizes", req |-> req]
     ELSE IF ~embedOK THEN [err |-> TRUE, reason |-> "embed", req |-> patched]
     ELSE IF search.err THEN [err |-> TRUE, reason |-> "search", req |-> patched]
     ELSE IF h.err THEN [err |-> TRUE, reason |-> "history", req |-> patched]
     ELSE [err |-> FALSE, reason |-> "ok",
           req |-> updateReq(systemMsg, patched.messages[Len(patched.messages)],
                             h.history, f.feeds, patched)]

\* processInbound: the body to forward, whether it was rewritten, why not,
\* and the req map at return.
processInbound(data, embedOK, search) ==
  LET req == jsonUnmarshal(data)
      fp  == feedPrompt(req, embedOK, search)
  IN IF ~data.json
       THEN [body |-> data, rewritten |-> FALSE, reason |-> "json", req |-> req]
     ELSE IF processMessages(req).err
       THEN [body |-> forwardOnError(data, req), rewritten |-> FALSE,
             reason |-> "messages", req |-> req]
     ELSE IF fp.err
       THEN [body |-> forwardOnError(data, fp.req), rewritten |-> FALSE,
             reason |-> fp.reason, req |-> fp.req]
     ELSE LET out == [fp.req EXCEPT !.temperature = Temperature]
          IN [body |-> jsonMarshal(out), rewritten |-> TRUE, reason |-> "ok",
              req |-> out]

\* ---- the requests, and what the embedding and the search may answer

LongSystemContent == [i \in 1..MainModelWindowSize |-> "s"]

SystemContents == { << "s" >>, << "s", "x" >>, LongSystemContent }

UserPrompt == Message("user", << "q" >>)
OldUserTurn == Message("user", << "h" >>)
OldAssistantTurn == Message("assistant", << "a" >>)
BareString == [role |-> "", content |-> << "b" >>, object |-> FALSE, text |-> TRUE]
\* A system message whose content is null, not a string.
NullSystem == [role |-> "system", content |-> << "null" >>, object |-> TRUE, text |-> FALSE]

MessageLists ==
  { << Message("system", c), UserPrompt >> : c \in SystemContents }
    \cup { << Message("system", c), OldUserTurn, OldAssistantTurn, UserPrompt >> :
             c \in SystemContents }
    \cup { << OldUserTurn, OldAssistantTurn, UserPrompt >>,
           << UserPrompt >>,
           << NullSystem, UserPrompt >>,
           << NullSystem, OldAssistantTurn, UserPrompt >>,
           << Message("system", << "s" >>), OldAssistantTurn >>,
           << Message("system", << "s" >>), BareString, UserPrompt >>,
           << Message("system", << "s" >>), Message("user", << " " >>) >> }

InboundBodies ==
  { TextBody(<< "?" >>) }
    \cup { JSONBody(t, m) : t \in { << >>, << "0", ".", "7" >> }, m \in MessageLists }

\* A stored point as the search returns it; its token count is that of the
\* message it is sent as.
Payload(role, body, id, path) ==
  LET p == [Role |-> role, Body |-> body, FileMeta |-> [ID |-> id, Path |-> path],
            TokenCount |-> 0]
  IN [p EXCEPT !.TokenCount = calculateTokensWithReserve(marshalMessage(feedMessage(p)))]

PayloadLists ==
  { << >>,
    << Payload("rag-user", << "k" >>, "", "") >>,
    << Payload("rag-assistant", << "H" >>, "", ""), Payload("rag-user", << "k" >>, "", "") >>,
    << Payload("rag-file", << "d" >>, "f", "p"), Payload("rag-user", << "k" >>, "", "") >>,
    << Payload("rag-user", << "k" >>, "", ""), Payload("rag-assistant", << "j" >>, "", "") >> }

SearchResults ==
  { [err |-> TRUE, payloads |-> << >>] }
    \cup { [err |-> FALSE, payloads |-> l] : l \in PayloadLists }

PackInit ==
  /\ inbound = TextBody(<< >>)
  /\ forwarded = TextBody(<< >>)
  /\ outcome = [rewritten |-> FALSE, reason |-> "idle",
                req |-> jsonUnmarshal(TextBody(<< >>))]
  /\ answers = [embedOK |-> TRUE, search |-> [err |-> FALSE, payloads |-> << >>]]
  /\ handled = 0

\* The proxy handles one chat request: the body processInbound returns is
\* what is forwarded upstream.
ProcessInbound(data, embedOK, search) ==
  /\ handled < MaxInbound
  /\ LET r == processInbound(data, embedOK, search)
     IN /\ forwarded' = r.body
        /\ outcome' = [rewritten |-> r.rewritten, reason |-> r.reason, req |-> r.req]
  /\ inbound' = data
  /\ answers' = [embedOK |-> embedOK, search |-> search]
  /\ handled' = handled + 1
  /\ UNCHANGED notPackVars

PackNext ==
  \E data \in InboundBodies, embedOK \in BOOLEAN, search \in SearchResults :
     ProcessInbound(data, embedOK, search)

\* ------------------------------------------------ prepareFeeds alone

\* Largest feed share and longest ranked list prepareFeeds is called with.
MaxFeedSize == 12
MaxFeedPayloads == 3

\* Ranked payloads: 4, 4, 8 and 5 tokens; "H" is the old user turn "h" in
\* capitals.
FeedPayloads ==
  { Payload("rag-user", << "k" >>, "", ""),
    Payload("rag-assistant", << "H" >>, "", ""),
    Payload("rag-file", << "d" >>, "f", "p"),
    Payload("rag-user", << "k", "k" >>, "", "") }

FeedPayloadLists == UNION { [1..n -> FeedPayloads] : n \in 0..MaxFeedPayloads }

FeedRequests ==
  { [temperature |-> << >>, messages |-> m] :
      m \in { << UserPrompt >>,
              << Message("system", << "s" >>), OldUserTurn, OldAssistantTurn, UserPrompt >>,
              << NullSystem, BareString, Message("user", << "k" >>) >> } }

FeedInit ==
  /\ feedArgs = [historySize |-> 0, feedSize |-> 0, relevantContent |-> << >>,
                 req |-> [temperature |-> << >>, messages |-> << UserPrompt >>]]
  /\ feedResult = [called |-> FALSE, feeds |-> << >>, historySize |-> 0]

\* The arguments of the call are any shares, ranked list and request.
FeedInputs ==
  /\ feedArgs \in [historySize : {0, 3}, feedSize : 0..MaxFeedSize,
                    relevantContent : FeedPayloadLists, req : FeedRequests]
  /\ feedResult = [called |-> FALSE, feeds |-> << >>, historySize |-> 0]

\* prepareFeeds is called with the arguments and returns.
PrepareFeeds ==
  /\ ~feedResult.called
  /\ LET r == prepareFeeds(feedArgs.historySize, feedArgs.feedSize,
                           feedArgs.relevantContent, feedArgs.req)
     IN feedResult' = [called |-> TRUE, feeds |-> r.feeds, historySize |-> r.historySize]
  /\ UNCHANGED << notFeedVars, feedArgs >>

\* ------------------------------------ SearchRelevantContentWithRerank

\* Longest candidate list the vector search returns; largest RerankTopN.
MaxCandidates == 3
MaxTopN == 2

\* Config.DefaultWeights, Config.MinRankScore (features and scores are in
\* hundredths, so a score is in hundredths of a weight unit).
DefaultWeights == << 3, 1, 1, 1, 1, 2, 2, 2, 1, 1 >>
MinRankScores == { 0, 400 }
\* Config.RerankTopN: -1 (no limit) or positive.
RerankTopNs == { -1 } \cup 1..MaxTopN

\* Features with every light feature at cheap and every heavy one at heavy.
FeaturesOf(cheap, heavy) ==
  [ EmbSim |-> cheap, Recency |-> cheap, RoleScore |-> cheap, BodyLen |-> cheap,
    PayloadQuality |-> cheap, KeywordOverlap |-> heavy, WeightedOverlap |-> heavy,
    BM25 |-> heavy, NgramOverlap |-> heavy, WeightedNgram |-> heavy ]

\* A candidate as SearchRelevantContent returns it: the light features are
\* filled, the heavy ones are zero.  computed holds what the heavy features
\* come to and failAt where updateFeaturesForCandidate fails: "" nowhere,
\* "tokens" on the token ids, "weighted" in weightedKeywordOverlapIDs.
SearchCandidates ==
  { [Features |-> FeaturesOf(c[1], 0), computed |-> c[2], failAt |-> c[3]] :
      c \in { << 80, 60, "" >>, << 80, 60, "tokens" >>, << 40, 20, "" >>,
              << 40, 20, "weighted" >>, << 10, 0, "" >> } }

CandidateLists == UNION { [1..n -> SearchCandidates] : n \in 0..MaxCandidates }

\* updateFeaturesForCandidate on one candidate: the features it leaves and
\* whether it returned an error.
updateFeatures(cand) ==
  IF cand.failAt = "tokens" THEN [Features |-> cand.Features, err |-> TRUE]
  ELSE IF cand.failAt = "weighted"
    THEN [Features |-> [cand.Features EXCEPT !.KeywordOverlap = cand.computed],
          err |-> TRUE]
  ELSE [Features |-> [cand.Features EXCEPT !.KeywordOverlap = cand.computed,
                                           !.WeightedOverlap = cand.computed,
                                           !.BM25 = cand.computed,
                                           !.NgramOverlap = cand.computed,
                                           !.WeightedNgram = cand.computed],
        err |-> FALSE]

\* scoreCandidate with every weight taken as 1.
scoreCandidateUnweighted(f, weights) ==
  f.EmbSim + f.Recency + f.RoleScore + f.BodyLen + f.PayloadQuality
    + f.KeywordOverlap + f.WeightedOverlap + f.BM25 + f.NgramOverlap + f.WeightedNgram

\* scoreCandidate: the weighted sum of the ten features.
scoreCandidate(f, weights) ==
  LET vals == << f.EmbSim, f.Recency, f.RoleScore, f.BodyLen, f.PayloadQuality,
                 f.KeywordOverlap, f.WeightedOverlap, f.BM25, f.NgramOverlap,
                 f.WeightedNgram >>
      sum[i \in 0..10] == IF i = 0 THEN 0 ELSE sum[i - 1] + vals[i] * weights[i]
  IN sum[10]

\* The orders sort.Slice may leave n scored candidates in: every permutation
\* in which no candidate stands before one with a higher score.
SortedOrders(scores) ==
  { f \in [1..Len(scores) -> 1..Len(scores)] :
      /\ \A a, b \in 1..Len(scores) : a # b => f[a] # f[b]
      /\ \A a \in 1..(Len(scores) - 1) : ~(scores[f[a + 1]] > scores[f[a]]) }

\* Nothing has been searched.
RerankIdle ==
  /\ rerankArgs = [candidates |-> << >>, MinRankScore |-> 0, RerankTopN |-> -1]
  /\ rerankResult = [called |-> FALSE, payloads |-> << >>]

\* The search is about to run on any candidate list and configuration.
RerankInputs ==
  /\ rerankArgs \in [candidates : CandidateLists, MinRankScore : MinRankScores,
                      RerankTopN : RerankTopNs]
  /\ rerankResult = [called |-> FALSE, payloads |-> << >>]

\* SearchRelevantContentWithRerank after SearchRelevantContent returned the
\* candidates: features, scores, filter, sort, cut.  A payload is given by
\* the position its candidate had in the search result.
SearchRelevantContentWithRerank ==
  /\ ~rerankResult.called
  /\ LET candidates == rerankArgs.candidates
         score == [i \in 1..Len(candidates) |->
                     scoreCandidate(updateFeatures(candidates[i]).Features, DefaultWeights)]
         passed(i) == score[i] >= rerankArgs.MinRankScore
         filtered == SelectSeq([i \in 1..Len(candidates) |-> i], passed)
         scores == [k \in 1..Len(filtered) |-> score[filtered[k]]]
         topN == rerankArgs.RerankTopN
     IN \E order \in SortedOrders(scores) :
          LET sorted == [k \in 1..Len(filtered) |-> filtered[order[k]]]
          IN rerankResult' =
               [called |-> TRUE,
                payloads |-> IF topN > 0 /\ Len(sorted) > topN
                               THEN SubSeq(sorted, 1, topN) ELSE sorted]
  /\ UNCHANGED << notSearchVars, rerankArgs >>

\* ------------------------------------------------- candidate features

\* Largest token count a stored payload carries.
MaxDocTokens == 5

\* Config.MinTokensNormalization, Config.MaxTokensNormalization,
\* Config.TauDays, Config.MaxQueryTokens.
MinTokensNormalization == 2
MaxTokensNormalization == 4
TauDays == 30
MaxQueryTokens == 2

\* A feature is a real number; it is kept as the expression that gives it:
\* the fraction n/d, the quotient of logarithms ln(n)/ln(d), the power
\* e^(n/d), the quotient of two sums of weights, or 1 - e^(-s) for a sum s of
\* weighted terms.  A weight or term log1p(x) is kept as the fraction x.
Frac(n, d) == [kind |-> "frac", n |-> n, d |-> d]
LogRatio(n, d) == [kind |-> "logratio", n |-> n, d |-> d]
ExpOf(n, d) == [kind |-> "exp", n |-> n, d |-> d]
WeightRatio(found, total) == [kind |-> "wratio", found |-> found, total |-> total]
Saturated(terms) == [kind |-> "satur", terms |-> terms]

\* The weight 1.0 used for a key without IDF entry: log1p(e - 1).
FallbackWeight == << 1718, 1000 >>

\* The roles of stored messages.
FeatureRoles == {"rag-user", "rag-file"}

\* Config.RoleWeights in hundredths: validated as not negative.
RoleWeightSets ==
  { [r \in FeatureRoles |-> IF r = "rag-user" THEN 100 ELSE 50],
    [r \in FeatureRoles |-> IF r = "rag-user" THEN 150 ELSE 100] }

\* int(float64(tokenCount) * 0.75), kept between the two configured bounds.
adaptiveMaxTokensNormalization(tokenCount) ==
  LET norm  == (tokenCount * 3) \div 4
      atMin == IF norm < MinTokensNormalization THEN MinTokensNormalization ELSE norm
  IN IF atMin > MaxTokensNormalization THEN MaxTokensNormalization ELSE atMin

\* bodyLenNorm: log(1 + tokenCount) / log(1 + adaptiveMaxTokensNormalization).
bodyLenNorm(tokenCount) ==
  LogRatio(1 + tokenCount, 1 + adaptiveMaxTokensNormalization(tokenCount))

\* payloadQuality: 0 for an empty body, else bodyLenNorm of the token count
\* (computed from the body when the payload has none).
payloadQuality(p) ==
  IF p.Body = << >> THEN Frac(0, 1)
  ELSE bodyLenNorm(IF p.TokenCount = 0 THEN calculateTokensWithReserve(p.Body)
                   ELSE p.TokenCount)

\* timeDecay: exp(-age / TauDays), age in days and not negative.
timeDecay(ageHours) ==
  ExpOf(-(IF ageHours < 0 THEN 0 ELSE ageHours), 24 * TauDays)

\* The score of the vector search as EmbSim: clamped to [0, 1], or, for the
\* Euclid metric, 1 / (1 + d) with the distance d not negative.
embSim(score, metric) ==
  IF metric = "Euclid"
    THEN Frac(100, 100 + (IF score < 0 THEN 0 ELSE score))
    ELSE Frac(IF score < 0 THEN 0 ELSE IF score > 100 THEN 100 ELSE score, 100)

\* uniqueInts: the first occurrence of each id, in order.
uniqueInts(ids) ==
  LET first(i) == \A j \in 1..(i - 1) : ids[j] # ids[i]
      kept[k \in 0..Len(ids)] ==
        IF k = 0 THEN << >>
        ELSE IF first(k) THEN Append(kept[k - 1], ids[k]) ELSE kept[k - 1]
  IN kept[Len(ids)]

\* keywordOverlapIDs: the share of the query ids that occur in the document.
keywordOverlapIDs(qIDs, docIDs) ==
  IF Len(qIDs) = 0 \/ Len(docIDs) = 0 THEN Frac(0, 1)
  ELSE LET inDoc(id) == \E j \in 1..Len(docIDs) : docIDs[j] = id
       IN Frac(Len(SelectSeq(qIDs, inDoc)), Len(qIDs))

\* weightedKeywordOverlapIDs: the IDF weights of the query ids found in the
\* document over the IDF weights of all query ids.
weightedKeywordOverlapIDs(qIDs, docIDs, idf) ==
  IF Len(qIDs) = 0 THEN Frac(0, 1)
  ELSE LET inDoc(id) == \E j \in 1..Len(docIDs) : docIDs[j] = id
           w(id) == IF id \in DOMAIN idf THEN idf[id] ELSE FallbackWeight
           found == SelectSeq(qIDs, inDoc)
       IN WeightRatio([i \in 1..Len(found) |-> w(found[i])],
                      [i \in 1..Len(qIDs) |-> w(qIDs[i])])

\* bm25Score and normalizeBM25: one term per query id that occurs in the
\* document, log1p((N - df + 0.5) / (df + 0.5)) times a factor that is
\* positive for BM25K1 > 0 and BM25B in [0, 1].
bm25Score(qIDs, docIDs, store) ==
  IF Len(qIDs) = 0 \/ Len(docIDs) = 0 THEN Saturated(<< >>)
  ELSE LET inDoc(id) == \E j \in 1..Len(docIDs) : docIDs[j] = id
           found == SelectSeq(qIDs, inDoc)
       IN Saturated([i \in 1..Len(found) |->
                       Fraction(2 * store.N - 2 * MapGet(store.DF, found[i]) + 1,
                                2 * MapGet(store.DF, found[i]) + 1)])

\* ngramsIDs for n = 2.
bigrams(ids) ==
  [i \in 1..(IF Len(ids) < 2 THEN 0 ELSE Len(ids) - 1) |-> SubSeq(ids, i, i + 1)]

\* ngramOverlap: the share of the query bigrams that occur in the document.
ngramOverlap(qIDs, docIDs) ==
  IF Len(bigrams(qIDs)) = 0 THEN Frac(0, 1)
  ELSE LET inDoc(ng) == \E j \in 1..Len(bigrams(docIDs)) : bigrams(docIDs)[j] = ng
       IN Frac(Len(SelectSeq(bigrams(qIDs), inDoc)), Len(bigrams(qIDs)))

\* weightedNgramOverlap: the same with the NgramIDF weights.
weightedNgramOverlap(qIDs, docIDs, ngramIDF) ==
  IF Len(bigrams(qIDs)) = 0 THEN Frac(0, 1)
  ELSE LET inDoc(ng) == \E j \in 1..Len(bigrams(docIDs)) : bigrams(docIDs)[j] = ng
           w(ng) == IF ngramHash(ng) \in DOMAIN ngramIDF THEN ngramIDF[ngramHash(ng)]
                    ELSE FallbackWeight
           found == SelectSeq(bigrams(qIDs), inDoc)
       IN WeightRatio([i \in 1..Len(found) |-> w(found[i])],
                      [i \in 1..Len(bigrams(qIDs)) |-> w(bigrams(qIDs)[i])])

\* The features of a new Candidate.
ZeroFeatures ==
  [ EmbSim |-> Frac(0, 1), Recency |-> Frac(0, 1), RoleScore |-> Frac(0, 1),
    BodyLen |-> Frac(0, 1), PayloadQuality |-> Frac(0, 1),
    KeywordOverlap |-> Frac(0, 1), WeightedOverlap |-> Frac(0, 1),
    BM25 |-> Frac(0, 1), NgramOverlap |-> Frac(0, 1), WeightedNgram |-> Frac(0, 1) ]

\* The light features SearchRelevantContent fills for a point.
cheapFeatures(a) ==
  [ ZeroFeatures EXCEPT
      !.EmbSim = embSim(a.score, a.QdrantMetric),
      !.Recency = timeDecay(a.ageHours),
      !.RoleScore = Frac(a.RoleWeights[a.Payload.Role], 100),
      !.BodyLen = bodyLenNorm(IF a.Payload.TokenCount = 0
                                THEN calculateTokensWithReserve(a.Payload.Body)
                                ELSE a.Payload.TokenCount),
      !.PayloadQuality = payloadQuality(a.Payload) ]

\* updateFeaturesForCandidate: nothing for an empty query or document; the
\* overlaps take the whole query, BM25 and the n-grams its unique ids cut
\* to the query limit.
heavyFeatures(f, query, docIDs, store) ==
  LET unique == uniqueInts(query)
      queryLimit ==
        IF Len(unique) > MaxQueryTokens
          THEN IF Len(unique) > 2 * MaxQueryTokens THEN Len(unique) \div 2
               ELSE MaxQueryTokens
          ELSE Len(unique)
      qIDs == SubSeq(unique, 1, queryLimit)
  IN IF Len(unique) = 0 \/ Len(docIDs) = 0 THEN f
     ELSE [ f EXCEPT
              !.KeywordOverlap = keywordOverlapIDs(query, docIDs),
              !.WeightedOverlap = weightedKeywordOverlapIDs(query, docIDs, store.IDF),
              !.BM25 = bm25Score(qIDs, docIDs, store),
              !.NgramOverlap = ngramOverlap(qIDs, docIDs),
              !.WeightedNgram = weightedNgramOverlap(qIDs, docIDs, store.NgramIDF) ]

\* The stores the features are read from: the empty one, and one with the
\* documents [1, 3, 1] and [1].
FeatureStores ==
  { EmptyIDFStore,
    addDocumentToIDF(addDocumentToIDF(EmptyIDFStore, << 1, 3, 1 >>, 3), << 1 >>, 1) }

\* The points, queries and configurations looked at.
FeatureArgs ==
  [ Payload : [Body : { << >>, << 1, 3, 1 >>, << 1, 2, 1, 3 >> },
               TokenCount : 0..MaxDocTokens, Role : FeatureRoles],
    score : { -20, 50, 130 }, QdrantMetric : {"Cosine", "Euclid"},
    ageHours : { -5, 48 }, query : { << >>, << 1, 3 >>, << 2, 2 >>, << 1, 3, 2 >> },
    RoleWeights : RoleWeightSets ]

\* No candidate is looked at.
FeatIdle ==
  /\ featArgs = [Payload |-> [Body |-> << >>, TokenCount |-> 0, Role |-> "rag-user"],
                 score |-> 0, QdrantMetric |-> "Cosine", ageHours |-> 0, query |-> << >>,
                 RoleWeights |-> [r \in FeatureRoles |-> 100]]
  /\ featResult = [called |-> FALSE, Features |-> ZeroFeatures]

\* A point of any content is about to become a candidate.
FeatureInputs ==
  /\ featArgs \in FeatureArgs
  /\ featResult = [called |-> FALSE, Features |-> ZeroFeatures]

\* The IDF store holds the documents of some earlier turns.
FeatureStoreInit ==
  /\ UseBM25IDF \in BOOLEAN
  /\ IDFStore \in FeatureStores
  /\ IDFChanged = FALSE
  /\ corpus = [b \in Bodies |-> 0]
  /\ idfOps = 0

\* The light features are filled and updateFeaturesForCandidate returns.
ComputeFeatures ==
  /\ ~featResult.called
  /\ featResult' =
       [called |-> TRUE,
        Features |-> heavyFeatures(cheapFeatures(featArgs), featArgs.query,
                                   featArgs.Payload.Body, IDFStore)]
  /\ UNCHANGED << notFeatVars, featArgs >>

\* ------------------------------------------- attachment reconciliation

\* Number of responses stored while the plans are looked at.
MaxPlans == 2

\* The stores when processOutbound calls storeAttachments: the two turns are
\* stored (no upsert fails).
turnsStored(idf, pts, user, assistant) ==
  processOutbound(idf, pts, user, assistant, << >>, 0)

\* A response is stored; what planAttachmentSync saw and returned and what
\* storeAttachments made of it are kept.
PlanOutbound(user, assistant, attachments) ==
  /\ requests < MaxPlans
  /\ StoreTurn(user, assistant, attachments, 0)
  /\ planInput' = attachments
  /\ LET s == turnsStored(IDFStore, points, user, assistant)
     IN planned' = [ pts      |-> s.pts,
                     idf      |-> s.idf,
                     toInsert |-> planAttachmentSync(attachments, s.pts).toInsert,
                     toReplace |-> planAttachmentSync(attachments, s.pts).toReplace,
                     after    |-> storeAttachments(attachments, s, 0) ]

PlanInit ==
  /\ planInput = << >>
  /\ planned = [ pts |-> << >>, idf |-> EmptyIDFStore, toInsert |-> << >>,
                 toReplace |-> << >>,
                 after |-> [idf |-> EmptyIDFStore, pts |-> << >>, upserts |-> 0,
                            err |-> FALSE] ]

PlanNext ==
  \E user \in UserBodies, assistant \in { <<2>> }, attachments \in AttachmentLists :
     PlanOutbound(user, assistant, attachments)

\* Number of responses stored while one file is replaced again and again.
MaxReplaceRequests == 3

\* The attachment lists of requests that carry the file "f" or nothing.
OneFileLists == { << >> } \cup { << Attachment("f", b) >> : b \in AttachmentBodies }

\* A response is stored whose request carries at most the file "f".
ReplaceOutbound(user, assistant, attachments, failAt) ==
  /\ requests < MaxReplaceRequests
  /\ StoreTurn(user, assistant, attachments, failAt)
  /\ UNCHANGED planVars

ReplaceNext ==
  \E user \in UserBodies, assistant \in { <<1, 2>> }, attachments \in OneFileLists :
     \E failAt \in 0..(2 + Len(attachments)) :
        ReplaceOutbound(user, assistant, attachments, failAt)

\* ------------------------------------- storeAttachments, step by step

\* Request tasks that store attachments at the same time.
MaxTasks == 2
\* storeAttachments calls in one run.
MaxStores == 3

Tasks == 1..MaxTasks

\* The file every request carries, with one body or another.
SharedFile == { Attachment("f", b) : b \in AttachmentBodies }

IdleTask ==
  [ pc |-> "idle", att |-> Attachment("", << >>), OldPointID |-> 0,
    OldCleanTokenCount |-> 0, oldBody |-> << >>, pointID |-> 0, ops |-> << >> ]

StoreInit ==
  /\ storing = [t \in Tasks |-> IdleTask]
  /\ uuids = 0
  /\ stores = 0

\* The stored points that carry the file id.
PointsOfFile(pts, id) == { p \in DOMAIN pts : pts[p].fileID = id }

\* Each request is handled on its own goroutine, so a task may start while
\* another is storing.
\* planAttachmentSync for the one attachment of the request: the scroll
\* returns a point with the file id if there is one (limit 1 for one id).
\* No point: the attachment is inserted under a new uuid.
PlanInsert(t, att) ==
  /\ storing[t].pc \in {"idle", "done", "failed"}
  /\ stores < MaxStores
  /\ PointsOfFile(points, att.ID) = {}
  /\ storing' = [storing EXCEPT ![t] =
        [IdleTask EXCEPT !.pc = "insert", !.att = att, !.pointID = uuids + 1]]
  /\ uuids' = uuids + 1
  /\ stores' = stores + 1
  /\ UNCHANGED << notStoreVars, idfVars, ingestVars >>

\* A point with another hash: the attachment replaces it; with the same
\* hash: nothing is planned.
PlanReplace(t, att) ==
  /\ storing[t].pc \in {"idle", "done", "failed"}
  /\ stores < MaxStores
  /\ \E p \in PointsOfFile(points, att.ID) :
        storing' = [storing EXCEPT ![t] =
          IF points[p].hash # att.Hash
            THEN [IdleTask EXCEPT !.pc = "replace", !.att = att, !.OldPointID = p,
                                  !.OldCleanTokenCount = points[p].cleanTokenCount,
                                  !.pointID = p]
            ELSE [IdleTask EXCEPT !.pc = "done", !.att = att]]
  /\ stores' = stores + 1
  /\ UNCHANGED << notStoreVars, idfVars, ingestVars, uuids >>

\* getPointBodyByID(OldPointID): an error ends the call.
FetchOldBody(t, ok) ==
  /\ storing[t].pc = "replace"
  /\ storing' = [storing EXCEPT ![t] =
        IF ok /\ storing[t].OldPointID \in DOMAIN points
          THEN [storing[t] EXCEPT !.pc = "fetched", !.oldBody = points[storing[t].OldPointID].body,
                         !.ops = Append(storing[t].ops, "fetch")]
          ELSE [storing[t] EXCEPT !.pc = "failed"]]
  /\ UNCHANGED << notStoreVars, idfVars, ingestVars, uuids, stores >>

\* removeDocumentFromIDF(oldBody, OldCleanTokenCount, OldHash): an error
\* (the tokenizer's) ends the call before the store is touched.
RemoveOld(t, ok) ==
  /\ storing[t].pc = "fetched"
  /\ IF ok
       THEN /\ IDFStore' = removeDocumentFromIDF(IDFStore, storing[t].oldBody,
                                                 storing[t].OldCleanTokenCount)
            /\ IDFChanged' = TRUE
            /\ storing' = [storing EXCEPT ![t] =
                  [storing[t] EXCEPT !.pc = "removed", !.ops = Append(storing[t].ops, "remove")]]
       ELSE /\ storing' = [storing EXCEPT ![t] = [storing[t] EXCEPT !.pc = "failed"]]
            /\ UNCHANGED << IDFStore, IDFChanged >>
  /\ UNCHANGED << notStoreVars, ingestVars, UseBM25IDF, corpus, idfOps, uuids, stores >>

\* upsertPoint, first part: addDocumentToIDF(body, cleanTokenCount, hash).
AddNew(t, ok) ==
  /\ storing[t].pc \in {"insert", "removed"}
  /\ IF ok
       THEN /\ IDFStore' = addDocumentToIDF(IDFStore, storing[t].att.Body,
                              calculateTokensWithReserve(storing[t].att.Body))
            /\ IDFChanged' = TRUE
            /\ storing' = [storing EXCEPT ![t] =
                  [storing[t] EXCEPT !.pc = "added", !.ops = Append(storing[t].ops, "add")]]
       ELSE /\ storing' = [storing EXCEPT ![t] = [storing[t] EXCEPT !.pc = "failed"]]
            /\ UNCHANGED << IDFStore, IDFChanged >>
  /\ UNCHANGED << notStoreVars, ingestVars, UseBM25IDF, corpus, idfOps, uuids, stores >>

\* upsertPoint, second part: DB.Upsert under the point id.
UpsertNew(t, ok) ==
  /\ storing[t].pc = "added"
  /\ LET att == storing[t].att
         pt  == [body |-> att.Body,
                 cleanTokenCount |-> calculateTokensWithReserve(att.Body),
                 hash |-> att.Hash, fileID |-> att.ID]
     IN IF ok
          THEN /\ points' = [p \in DOMAIN points \cup {storing[t].pointID} |->
                               IF p = storing[t].pointID THEN pt ELSE points[p]]
               /\ storing' = [storing EXCEPT ![t] =
                     [storing[t] EXCEPT !.pc = "done", !.ops = Append(storing[t].ops, "upsert")]]
          ELSE /\ storing' = [storing EXCEPT ![t] = [storing[t] EXCEPT !.pc = "failed"]]
               /\ UNCHANGED points
  /\ UNCHANGED << notStoreVars, idfVars, requests, uuids, stores >>

StoreNext ==
  \E t \in Tasks :
     \/ \E att \in SharedFile : PlanInsert(t, att)
     \/ \E att \in SharedFile : PlanReplace(t, att)
     \/ \E ok \in BOOLEAN : FetchOldBody(t, ok)
     \/ \E ok \in BOOLEAN : RemoveOld(t, ok)
     \/ \E ok \in BOOLEAN : AddNew(t, ok)
     \/ \E ok \in BOOLEAN : UpsertNew(t, ok)

\* ------------------------------------------------------------ rule sets

\* Length of the texts the rule set is applied to.
MaxTextLen == 4

\* The texts over "a" and "b" up to that length.
RuleTexts == UNION { [1..n -> { "a", "b" }] : n \in 0..MaxTextLen }

\* initResponseReplaceRules has run on the configuration cfg.
RuleInit(cfg) ==
  /\ ResponseReplacer = cfg
  /\ responseReplaceRules \in initResponseReplaceRules(cfg)
  /\ ruleSrc = << >>
  /\ ruleOut = [out |-> << >>, changed |-> FALSE]

\* applyReplaceRulesToString(text) is called.
ApplyReplaceRules(text) ==
  /\ ruleSrc' = text
  /\ ruleOut' = applyReplaceRulesToString(text)
  /\ UNCHANGED << notRuleVars, ResponseReplacer, responseReplaceRules >>

RuleNext == \E text \in RuleTexts : ApplyReplaceRules(text)

\* ------------------------------------------------------------- withDB

\* Number of withDB calls that run at the same time.
MaxDBCalls == 2

DBCalls == 1..MaxDBCalls

\* qdrant.NewClient: on success the call holds a new open connection in its
\* local db (connections are numbered from 1; conns counts the Close calls
\* each has had); on an error withDB returns.
DBOpen(c, ok) ==
  /\ dpc[c] = "start"
  /\ IF ok
       THEN /\ conns' = Append(conns, 0)
            /\ dconn' = [dconn EXCEPT ![c] = Len(conns) + 1]
            /\ dpc' = [dpc EXCEPT ![c] = "opened"]
       ELSE /\ dpc' = [dpc EXCEPT ![c] = "returned"]
            /\ UNCHANGED << conns, dconn >>
  /\ UNCHANGED << notDBVars, DB, usedConn, closedConn >>

\* appCtx.DB = db; the deferred function is registered.
DBSet(c) ==
  /\ dpc[c] = "opened"
  /\ DB' = dconn[c]
  /\ dpc' = [dpc EXCEPT ![c] = "fn"]
  /\ UNCHANGED << notDBVars, conns, dconn, usedConn, closedConn >>

\* fn(): it sends its request on appCtx.DB, whatever that holds by now; on a
\* nil pointer it panics.  The deferred function runs after a result, an
\* error and a panic alike.
DBRun(c) ==
  /\ dpc[c] = "fn"
  /\ usedConn' = [usedConn EXCEPT ![c] = DB]
  /\ dpc' = [dpc EXCEPT ![c] = "close"]
  /\ UNCHANGED << notDBVars, DB, conns, dconn, closedConn >>

\* deferred: appCtx.DB.Close(), on whatever appCtx.DB holds by now; on a nil
\* pointer the call panics.
DBClose(c) ==
  /\ dpc[c] = "close"
  /\ closedConn' = [closedConn EXCEPT ![c] = DB]
  /\ IF DB = 0
       THEN /\ dpc' = [dpc EXCEPT ![c] = "panicked"]
            /\ UNCHANGED conns
       ELSE /\ dpc' = [dpc EXCEPT ![c] = "clear"]
            /\ conns' = [conns EXCEPT ![DB] = @ + 1]
  /\ UNCHANGED << notDBVars, DB, dconn, usedConn >>

\* deferred: appCtx.DB = nil; withDB returns.
DBClear(c) ==
  /\ dpc[c] = "clear"
  /\ DB' = 0
  /\ dpc' = [dpc EXCEPT ![c] = "returned"]
  /\ UNCHANGED << notDBVars, conns, dconn, usedConn, closedConn >>

withDB ==
  \E c \in DBCalls :
     \/ \E ok \in BOOLEAN : DBOpen(c, ok)
     \/ DBSet(c)
     \/ DBRun(c)
     \/ DBClose(c)
     \/ DBClear(c)

\* No connection is open and appCtx.DB is nil; the calls are about to begin.
DBInit ==
  /\ DB = 0
  /\ conns = << >>
  /\ dpc = [c \in DBCalls |-> "start"]
  /\ dconn = [c \in DBCalls |-> 0]
  /\ usedConn = [c \in DBCalls |-> 0]
  /\ closedConn = [c \in DBCalls |-> 0]

\* ------------------------------------------------------ specifications

vars == << streamVars, idfVars, ingestVars, packVars, saveVars, auxVars >>

\* The rule set of the configuration with the trigger "ab" is built; no
\* withDB call runs and no attachment has been planned.
AuxInit == RuleInit(StreamReplacer) /\ DBInit /\ PlanInit /\ StoreInit /\ FeedInit /\ RerankIdle /\ FeatIdle

\* The IDF store while another part of the program is looked at.
IDFIdle == IDFInit /\ ~UseBM25IDF

StreamNext == Handler \/ StartOutgoingLoop

\* A collector is created; the rest of the program stands still.
InitStream == AuxInit /\ StreamInit /\ IDFIdle /\ IngestInit /\ PackInit /\ SaveInit

SpecStream == InitStream /\ [][StreamNext]_vars

\* The loop goroutine is scheduled while it can take a step, and a
\* StopOutgoingLoop call blocked on doneCh resumes once doneCh is closed.
SpecStreamFair ==
  InitStream /\ [][StreamNext]_vars
     /\ WF_vars(StartOutgoingLoop) /\ WF_vars(StopReturn)

\* The IDF store is empty and under either formula; no response is streamed.
InitIDF == AuxInit /\ StreamInit /\ IDFInit /\ IngestInit /\ PackInit /\ SaveInit

SpecIDF == InitIDF /\ [][IDFNext]_vars

\* The stores are empty, under either formula; turns are stored.
InitIngest == AuxInit /\ StreamInit /\ IDFInit /\ IngestInit /\ PackInit /\ SaveInit

SpecIngest == InitIngest /\ [][IngestNext]_vars

\* Chat requests are handled; the rest of the program stands still.
InitPack == AuxInit /\ StreamInit /\ IDFIdle /\ IngestInit /\ PackInit /\ SaveInit

SpecPack == InitPack /\ [][PackNext]_vars

\* Handlers updating the store while a rerank reads it.
RerankNext == UpdateDocument \/ updateFeaturesForCandidate
InitRerank == AuxInit /\ StreamInit /\ IDFIdle /\ IngestInit /\ PackInit /\ SaveInit
SpecRerank == InitRerank /\ [][RerankNext]_vars

\* Handlers updating the store, the autosave goroutine and shutdownApp.
SaveNext == UpdateDocument \/ startIDFAutoSave \/ shutdownApp
InitSave == AuxInit /\ StreamInit /\ IDFIdle /\ IngestInit /\ PackInit /\ SaveInit
SpecSave == InitSave /\ [][SaveNext]_vars

\* Several requests are inside withDB at the same time.
InitDB == AuxInit /\ StreamInit /\ IDFIdle /\ IngestInit /\ PackInit /\ SaveInit
SpecDB == InitDB /\ [][withDB]_vars

\* Turns are stored whose requests carry the file "f"; upserts may fail.
InitReplace == AuxInit /\ StreamInit /\ IDFInit /\ IngestInit /\ PackInit /\ SaveInit
SpecReplace == InitReplace /\ [][ReplaceNext]_vars

\* Turns with attachments are stored and the plans are kept.
InitPlan == AuxInit /\ StreamInit /\ IDFInit /\ IngestInit /\ PackInit /\ SaveInit
SpecPlan == InitPlan /\ [][PlanNext]_vars

\* The rule set is built from a configuration whose rules overlap and is
\* applied to texts.
InitRules ==
  /\ RuleInit(OverlapReplacer) /\ DBInit /\ PlanInit /\ StoreInit /\ FeedInit /\ RerankIdle /\ FeatIdle
  /\ StreamInit /\ IDFIdle /\ IngestInit /\ PackInit /\ SaveInit
SpecRules == InitRules /\ [][RuleNext]_vars

\* A response is streamed under a rule set that replaces a match by itself.
InitStreamIdentity ==
  /\ RuleInit(IdentityReplacer) /\ DBInit /\ PlanInit /\ StoreInit /\ FeedInit /\ RerankIdle /\ FeatIdle
  /\ StreamInit /\ IDFIdle /\ IngestInit /\ PackInit /\ SaveInit
SpecStreamIdentity == InitStreamIdentity /\ [][StreamNext]_vars

\* A response is streamed under a rule set whose replacement repeats a token.
InitStreamDouble ==
  /\ RuleInit(DoubleReplacer) /\ DBInit /\ PlanInit /\ StoreInit /\ FeedInit /\ RerankIdle /\ FeatIdle
  /\ StreamInit /\ IDFIdle /\ IngestInit /\ PackInit /\ SaveInit
SpecStreamDouble == InitStreamDouble /\ [][StreamNext]_vars

\* prepareFeeds is called with every feed share, ranked list and request.
InitFeeds ==
  /\ RuleInit(StreamReplacer) /\ DBInit /\ PlanInit /\ StoreInit /\ FeedInputs /\ RerankIdle /\ FeatIdle
  /\ StreamInit /\ IDFIdle /\ IngestInit /\ PackInit /\ SaveInit
SpecFeeds == InitFeeds /\ [][PrepareFeeds]_vars

\* A search is reranked, for every candidate list and configuration.
InitSearch ==
  /\ RuleInit(StreamReplacer) /\ DBInit /\ PlanInit /\ StoreInit /\ FeedInit /\ RerankInputs /\ FeatIdle
  /\ StreamInit /\ IDFIdle /\ IngestInit /\ PackInit /\ SaveInit
SpecSearch == InitSearch /\ [][SearchRelevantContentWithRerank]_vars

\* The features of a candidate are computed, for every point, query,
\* configuration and store.
InitFeatures ==
  /\ RuleInit(StreamReplacer) /\ DBInit /\ PlanInit /\ StoreInit /\ FeedInit /\ RerankIdle
  /\ FeatureInputs
  /\ StreamInit /\ FeatureStoreInit /\ IngestInit /\ PackInit /\ SaveInit
SpecFeatures == InitFeatures /\ [][ComputeFeatures]_vars

\* Requests with the file "f" store their attachment, each on its own task.
InitStore == AuxInit /\ StreamInit /\ IDFIdle /\ IngestInit /\ PackInit /\ SaveInit
SpecStore == InitStore /\ [][StoreNext]_vars

\* The IDF store is empty; documents are added, and removed whether or not
\* they were added.
InitIDFAny == AuxInit /\ StreamInit /\ IDFInit /\ IngestInit /\ PackInit /\ SaveInit
SpecIDFAny == InitIDFAny /\ [][IDFAnyNext]_vars

\* ----------------------------------------------- observations (stream)

RECURSIVE TextOf(_)
\* Concatenation of the message-path text of a sequence of packets.
TextOf(pkts) ==
  IF pkts = <<>> THEN <<>> ELSE extractMessage(Head(pkts).RawData) \o TextOf(Tail(pkts))

IsStream(pkt) == pkt.PacketType = "Stream"

\* Concatenation of the inbound text deltas.
InboundText == TextOf(SelectSeq(accepted, IsStream))

\* The frames written downstream, in the order written.
DownstreamPackets == [i \in 1..Len(downstream) |-> downstream[i].pkt]

\* Text the client received at the message path.
DownstreamText == TextOf(DownstreamPackets)

ByLoop(e) == e.by = "loop"
\* The frames the writer routine wrote.
WriterLog == LET l == SelectSeq(downstream, ByLoop) IN [i \in 1..Len(l) |-> l[i].pkt]

\* The packet the writer routine has popped and not yet written.
InHand == IF loopPc = "write" THEN << loopPkt >> ELSE <<>>

\* StopOutgoingLoop has returned: the response is finalized.
Finalized == hpc = "stopped"

\* Stream frames, then one FinishStream frame.
StreamedResponse ==
  /\ Len(accepted) >= 1
  /\ accepted[Len(accepted)].PacketType = "Finish"
  /\ \A i \in 1..(Len(accepted) - 1) : accepted[i].PacketType = "Stream"

\* Number of downstream frames that came from inbound chunk i.
FramesOf(i) == Cardinality({j \in 1..Len(downstream) : downstream[j].pkt.seq = i})

\* ------------------------------------------------------------- claims

\* C1: for a streamed response (Stream frames, a FinishStream frame,
\* CloseAndProcess), once the response is finalized the text written
\* downstream equals the rule set applied to the concatenation of the inbound
\* text deltas, and no text matched by a find pattern is written unreplaced.
C1_StreamTextIsRulesApplied ==
  (Finalized /\ StreamedResponse) =>
     /\ DownstreamText = applyReplaceRulesToString(InboundText).out
     /\ \A k \in 1..Len(AllRules) : ~Contains(DownstreamText, AllRules[k].Find)

\* C2: when no trigger appears in the response text, every inbound chunk that
\* is not Direct has exactly one frame downstream once the response is
\* finalized.
C2_ExactlyOneFramePerChunk ==
  (Finalized /\ ~containsTrigger(InboundText)) =>
     \A i \in 1..Len(accepted) :
        accepted[i].PacketType # "Direct" => FramesOf(i) = 1

\* C3: frames are written downstream in the order in which their inbound
\* chunks were accepted by Write.
C3_DownstreamInAcceptanceOrder ==
  \A i, j \in 1..Len(downstream) :
     (i < j /\ downstream[i].pkt.seq # 0 /\ downstream[j].pkt.seq # 0)
        => downstream[i].pkt.seq < downstream[j].pkt.seq

\* C4: when a response ends while not collecting, every retained Stream frame
\* is handed to the writer in arrival order: on a FinishStream frame followed
\* by the finish frame, and on CloseAndProcess also when no FinishStream frame
\* was seen; nothing stays in incomingPackets.
C4_RetainedFramesFlushedAtEnd ==
  [][ /\ (hpc = "serving" /\ hpc' = "closed" /\ ~collecting)
           => (pending' = incomingPackets /\ incomingPackets' = <<>>)
      /\ (Len(accepted') = Len(accepted) + 1
            /\ accepted'[Len(accepted')].PacketType = "Finish" /\ ~collecting)
           => (pending' = Append(incomingPackets, accepted'[Len(accepted')])
               /\ incomingPackets' = <<>>) ]_vars

\* C5: after any sequence of addDocumentToIDF and removeDocumentFromIDF calls,
\* every token id t with DF[t] > 0, whether or not it occurs in the document
\* of the latest call, has an IDF entry equal to the configured formula at the
\* current N and the current DF[t].
C5_IDFMatchesFormula ==
  \A t \in DOMAIN IDFStore.DF :
     IDFStore.DF[t] > 0 =>
        /\ t \in DOMAIN IDFStore.IDF
        /\ IDFStore.IDF[t] = idfFormula(IDFStore.N, IDFStore.DF[t])

\* C6: in every reachable state of the IDF store and for every document d,
\* addDocumentToIDF(d) followed at once by removeDocumentFromIDF(d) leaves
\* DF, NgramDF, IDF, NgramIDF, N and TotalTokens as they were before the add.
C6_AddThenRemoveRestores ==
  \A b \in Bodies :
     LET d == Document(b)
     IN removeDocumentFromIDF(addDocumentToIDF(IDFStore, d.body, d.tokenCount),
                              d.body, d.tokenCount) = IDFStore


\* The token ids of a body.
TokensOf(body) == { body[i] : i \in 1..Len(body) }

\* The token ids that occur in some body.
TokenIDs == UNION { TokensOf(b) : b \in Bodies }

\* Number of stored points whose body contains token t.
PointsWith(t) == Cardinality({ p \in DOMAIN points : t \in TokensOf(points[p].body) })

\* C7: after any sequence of ingestion operations, also when a vector-store
\* upsert failed, N equals the number of points in the vector store and the
\* body of every stored point is counted exactly once: DF[t] is the number of
\* stored points whose body contains t.
C7_IDFConsistentWithVectorStore ==
  /\ IDFStore.N = Cardinality(DOMAIN points)
  /\ \A t \in TokenIDs : MapGet(IDFStore.DF, t) = PointsWith(t)

\* Token size of a body as it is sent: the meta data, every message (the
\* system message with the comma that follows it) and the messages wrapper.
SentSize(body) ==
  LET req  == jsonUnmarshal(body)
      size == [i \in 1..Len(req.messages) |->
                 calculateTokensWithReserve(marshalMessage(req.messages[i]))]
      RECURSIVE Sum(_)
      Sum(i) == IF i = 0 THEN 0 ELSE size[i] + Sum(i - 1)
  IN calcMetaSize(req) + calcSystemMsgSize(req).size - size[1] * (IF calcSystemMsgSize(req).found THEN 1 ELSE 0)
       + Sum(Len(req.messages)) + MessagesWrapperSize

\* C8: when packing succeeds, the request as sent fits the model window: the
\* meta data, the system message after patching, the feeds, the history, the
\* user prompt and the messages wrapper together are at most
\* MainModelWindowSize tokens.
C8_PackedRequestFitsWindow ==
  outcome.rewritten => SentSize(forwarded) <= MainModelWindowSize

\* C9: whenever rewriting cannot be completed (the body is not JSON, no usable
\* trailing user message, no window left, embedding error, vector-store
\* error, history error) the body forwarded upstream is the inbound body: no
\* message added or removed, the temperature field as it came.
C9_FailureForwardsInboundBody ==
  (outcome.reason \in { "json", "messages", "sizes", "embed", "search", "history" }) =>
     /\ ~outcome.rewritten
     /\ forwarded = inbound
     /\ forwarded.messages = inbound.messages
     /\ forwarded.temperature = inbound.temperature

\* The embedding failed after feedPrompt had patched the system message in
\* the req map, and the inbound body was forwarded.
C9_Witness ==
  /\ outcome.reason = "embed"
  /\ outcome.req # jsonUnmarshal(inbound)
  /\ forwarded = inbound

\* C10 (safety part): the writer routine writes the queued packets in FIFO
\* order and loses none; it exits only with the queue empty and after stop was
\* signalled, closing doneCh once; StopOutgoingLoop returns only after that.
C10_QueueSafety ==
  /\ WriterLog \o InHand \o outgoingPackets = enqLog
  /\ doneCh <= 1
  /\ loopPc = "exited" => (outgoingPackets = <<>> /\ stopCh = "closed" /\ doneCh = 1)
  /\ hpc = "stopped" => (loopPc = "exited" /\ WriterLog = enqLog)

C11_QueueWithinCapacity ==
  Len(outgoingPackets) <= InitialOutgoingGorutineBufferCount

\* The views of the store after each whole number of completed calls.
CommittedViews == { ViewOf(committed[i]) : i \in 1..Len(committed) }

\* C12: what a rerank has read of the IDF store (N, TotalTokens, DF, IDF,
\* NgramIDF) is the store as it was after some whole number of completed
\* addDocument/removeDocument calls.
C12_ReadersSeeWholeUpdates ==
  rpc = "done" => seen \in CommittedViews

\* The store after the last completed addDocument/removeDocument call.
LatestStore == committed[Len(committed)]

\* C15: whenever the dirty flag is clear, the snapshot file contains every
\* mutation made so far (the flag is set by every mutation and cleared only
\* by a snapshot that succeeded).
C15_CleanFlagMeansSaved ==
  ~IDFChanged => loadIDF(idfFile) = LatestStore

\* C16: once the snapshotter goroutine has terminated at shutdown, the
\* snapshot file holds the latest state of the IDF store (stated for the
\* runs in which no file operation failed).
C16_ExitedSnapshotterLeftLatest ==
  (apc = "exited" /\ ioErrors = 0) => loadIDF(idfFile) = LatestStore


\* C13: every withDB call runs its function body against the connection the
\* call itself opened and closes exactly that connection exactly once when it
\* returns; no call uses or closes a connection of another call or a nil
\* connection, and no opened connection stays unclosed.
C13_EachCallOwnsItsConnection ==
  \A c \in DBCalls :
     /\ dpc[c] # "panicked"
     /\ (dpc[c] \in { "close", "clear", "returned" } /\ dconn[c] # 0)
           => usedConn[c] = dconn[c]
     /\ (dpc[c] = "returned" /\ dconn[c] # 0)
           => (closedConn[c] = dconn[c] /\ conns[dconn[c]] = 1)

\* C14: after any sequence of addDocumentToIDF and removeDocumentFromIDF calls
\* the program makes, DF[k] <= N for every token id k.
C14_DFAtMostN ==
  \A k \in DOMAIN IDFStore.DF : IDFStore.DF[k] <= IDFStore.N

\* C17: when a trigger fired and the rule set leaves the collected text
\* unchanged, the frames written downstream of a finalized streamed response
\* are exactly the inbound Stream frames, unmodified and in their order,
\* followed by the withheld finish frame.
C17_IdentityRulesLeaveFramesAlone ==
  (/\ Finalized
   /\ StreamedResponse
   /\ collecting
   /\ ~applyReplaceRulesToString(currentTextBuffer).changed)
     => DownstreamPackets = accepted

\* C19: for a fixed configuration the rules are applied in the same order in
\* every run of the process: whatever rule set initResponseReplaceRules builds
\* from the configuration, applying it to a text gives the result this run
\* gave.
C19_RuleOrderIsFixed ==
  \A records \in initResponseReplaceRules(ResponseReplacer) :
     ApplyRulesFrom(AllRulesOf(records), ruleSrc, FALSE, 1) = ruleOut

\* The attachments of the two result lists of the last plan.
InsertList == [j \in 1..Len(planned.toInsert) |-> planned.toInsert[j].Attachment]
ReplaceList == [j \in 1..Len(planned.toReplace) |-> planned.toReplace[j].Attachment]

InList(att, list) == \E j \in 1..Len(list) : list[j] = att

\* The points that carried the file id when the plan was made.
StoredWith(id) == { p \in DOMAIN planned.pts : planned.pts[p].fileID = id }

\* The id is stored with this hash / with another hash.
StoredSame(att) == \E p \in StoredWith(att.ID) : planned.pts[p].hash = att.Hash
StoredOther(att) == \E p \in StoredWith(att.ID) : planned.pts[p].hash # att.Hash

\* No id occurs twice in the two result lists together.
PlannedOnce ==
  LET all == InsertList \o ReplaceList
  IN \A i, j \in 1..Len(all) : all[i].ID = all[j].ID => i = j

FirstAt(i) == \A j \in 1..(i - 1) : planInput[j].ID # planInput[i].ID

IsFeed(msg) == msg.role \in { "rag-user", "rag-assistant", "rag-file" }

\* The rank the search gave the payload a feed was made of (1 is the best).
RankOf(msg) ==
  CHOOSE r \in 1..Len(answers.search.payloads) :
     feedMessage(answers.search.payloads[r]) = msg

\* C18: the rewritten messages array is the system message (if the request
\* has one), the included feeds from the lowest-ranked to the highest-ranked,
\* the included history messages in their chronological order, and the user
\* prompt as the last element; the system message and the user prompt are
\* never dropped or moved.
C18_PackedOrder ==
  outcome.rewritten =>
    LET in     == inbound.messages
        out    == forwarded.messages
        n      == Len(out)
        hasSys == in[1].role = "system"
        first  == IF hasSys THEN 2 ELSE 1
        k      == Cardinality({ i \in 1..n : IsFeed(out[i]) })
        h      == n - first - k
    IN /\ n >= first
       /\ out[n] = in[Len(in)]
       /\ hasSys =>
             out[1] = [in[1] EXCEPT
                         !.content = IF in[1].text THEN patchSystemMessage(@) ELSE @]
       /\ \A i \in first..(first + k - 1) :
             /\ IsFeed(out[i])
             /\ \E r \in 1..Len(answers.search.payloads) :
                   feedMessage(answers.search.payloads[r]) = out[i]
       /\ \A i, j \in first..(first + k - 1) :
             i < j => RankOf(out[i]) > RankOf(out[j])
       /\ h >= 0
       /\ Len(in) - h >= first
       /\ \A t \in 1..h : out[first + k - 1 + t] = in[Len(in) - 1 - h + t]

\* The step is a Write call that accepts a Stream frame.
StreamAccepted ==
  /\ Len(accepted') = Len(accepted) + 1
  /\ accepted'[Len(accepted')].PacketType = "Stream"

\* currentTextBuffer with the text of the frame the step accepts.
BufferWithFrame == currentTextBuffer \o extractMessage(accepted'[Len(accepted')].RawData)

\* C22: while not collecting, a Stream frame that brings currentTextBuffer to
\* at least responseReplaceMaxTriggerLen runes with a trigger in it sets
\* collecting; from then on no frame is handed to the writer until
\* CloseAndProcess runs and collecting stays true.  When the buffer holds no
\* trigger at that moment, all retained frames are enqueued in their order
\* and currentTextBuffer and incomingPackets are cleared.
C22_TriggerStartsCollecting ==
  [][ /\ (/\ StreamAccepted
          /\ ~collecting
          /\ Len(BufferWithFrame) >= responseReplaceMaxTriggerLen
          /\ containsTrigger(BufferWithFrame))
            => collecting'
      /\ collecting => collecting'
      /\ (collecting /\ hpc' = "serving")
            => (pending' = << >> /\ enqLog' = enqLog)
      /\ (/\ StreamAccepted
          /\ ~collecting
          /\ Len(BufferWithFrame) >= responseReplaceMaxTriggerLen
          /\ ~containsTrigger(BufferWithFrame))
            => /\ pending' = Append(incomingPackets, accepted'[Len(accepted')])
               /\ currentTextBuffer' = << >>
               /\ incomingPackets' = << >>
      /\ (hpc' = "serving" /\ pending' = << >> /\ ~collecting')
            => SelectSeq(enqLog', IsStream) \o incomingPackets'
                 = SelectSeq(accepted', IsStream) ]_vars

\* A frame CloseAndProcess made from templateStreamPacket.
IsSynthesized(pkt) == pkt.PacketType = "Stream" /\ pkt.seq = 0

\* C23: for a streamed response with a FinishStream frame and CloseAndProcess,
\* once the response is finalized exactly one finish frame has been written
\* downstream and it is the last frame; when a rule changed the collected
\* text, the finish frame is preceded by one synthesized frame per token of
\* the re-tokenized replaced text, in token order.
C23_OneFinishFrameLast ==
  (Finalized /\ StreamedResponse) =>
    LET d   == DownstreamPackets
        n   == Len(d)
        r   == applyReplaceRulesToString(currentTextBuffer)
        ids == TokenizerEncode(r.out)
        k   == Len(ids)
    IN /\ n >= 1
       /\ d[n].PacketType = "Finish"
       /\ \A i \in 1..(n - 1) : d[i].PacketType # "Finish"
       /\ (collecting /\ Len(currentTextBuffer) > 0 /\ r.changed) =>
             /\ Len(SelectSeq(d, IsSynthesized)) = k
             /\ n > k
             /\ \A i \in 1..k :
                   /\ IsSynthesized(d[n - 1 - k + i])
                   /\ extractMessage(d[n - 1 - k + i].RawData) = TokenizerDecode(ids[i])

\* A step in which a Write call itself writes to the ResponseWriter.
WriteCallWrites ==
  /\ Len(downstream') = Len(downstream) + 1
  /\ downstream'[Len(downstream')].by = "write"

\* The writer routine holds a popped packet it has not finished writing.
LoopWriting == loopPc = "write"

\* C28: the ResponseWriter is never written by two goroutines at once: a
\* Write call writes to it only when the writer routine is not writing and
\* has nothing queued; every other frame is written by the writer routine.
C28_OneWriterAtATime ==
  [][ /\ WriteCallWrites => (~LoopWriting /\ outgoingPackets = << >> /\ pending = << >>)
      /\ (Len(downstream') > Len(downstream) /\ ~WriteCallWrites)
            => (LoopWriting /\ downstream'[Len(downstream')].by = "loop") ]_vars

\* One DirectPacket chunk and nothing else.
DirectResponse == Len(accepted) = 1 /\ accepted[1].PacketType = "Direct"

\* The returned text of a finalized streamed response is the text of the
\* frames handed to the writer, which is the text the client received.
ReturnedStreamedText ==
  (Finalized /\ StreamedResponse) =>
     /\ cleanAssistantContent = TextOf(enqLog)
     /\ cleanAssistantContent = DownstreamText

\* The returned text of a Direct response is the message text of the body
\* written downstream.
ReturnedDirectText ==
  (hpc # "serving" /\ DirectResponse) =>
     /\ Len(downstream) = 1
     /\ cleanAssistantContent = extractMessage(downstream[1].pkt.RawData)

\* C29: the assistant text CloseAndProcess returns equals the text delivered
\* to the client at the message path: for a streamed response the text of
\* all frames handed to the writer, for a Direct response the message text of
\* the body written, rewritten or not.
C29_ReturnedTextIsDeliveredText == ReturnedStreamedText /\ ReturnedDirectText

\* The counts of the store are well formed.
StoreWellFormed(st) ==
  /\ st.N >= 0
  /\ st.TotalTokens >= 0
  /\ \A k \in DOMAIN st.DF : st.DF[k] >= 1
  /\ \A h \in DOMAIN st.NgramDF : st.NgramDF[h] >= 1
  /\ DOMAIN st.DF = DOMAIN st.IDF
  /\ DOMAIN st.NgramDF = DOMAIN st.NgramIDF

\* A removal step: every count it touches goes down by one (TotalTokens by
\* the token count) or stops at zero.
RemovalClamped ==
  (idfOps' = idfOps + 1 /\ IDFStore'.N <= IDFStore.N) =>
     /\ IDFStore'.N = (IF IDFStore.N > 0 THEN IDFStore.N - 1 ELSE 0)
     /\ IDFStore'.TotalTokens <= IDFStore.TotalTokens
     /\ \A k \in DOMAIN IDFStore.DF :
           MapGet(IDFStore'.DF, k) \in { IDFStore.DF[k], IDFStore.DF[k] - 1 }
     /\ DOMAIN IDFStore'.DF \subseteq DOMAIN IDFStore.DF
     /\ DOMAIN IDFStore'.NgramDF \subseteq DOMAIN IDFStore.NgramDF
     /\ IDFChanged'

\* C27: after any sequence of additions and removals from an empty store,
\* removals of never-added documents included, N and TotalTokens are not
\* negative, every key of DF and NgramDF has a count of at least 1, DF and
\* IDF have the same keys and so have NgramDF and NgramIDF; a removal that
\* would take a count below zero is clamped and completes.
C27_StoreStaysWellFormed ==
  /\ [] StoreWellFormed(IDFStore)
  /\ [][RemovalClamped]_vars

\* A document was removed that the store did not hold: the store counts no
\* document while one that was added has not been removed.
C27_Witness ==
  /\ IDFStore.N = 0
  /\ \E b \in Bodies : corpus[b] > 0
  /\ DOMAIN IDFStore.DF # {}

\* Whether small is an initial part of big.
IsPrefix(small, big) ==
  Len(small) <= Len(big) /\ SubSeq(big, 1, Len(small)) = small

\* C24: when storeAttachments replaces an attachment, the old body is
\* fetched by the old point id and removed from the IDF store before the new
\* body is added and upserted; the upsert reuses the old point id, so the
\* file id has a single point; when the fetch or the removal fails there is
\* no upsert for the attachment.
C24_ReplaceRemovesThenUpserts ==
  \A t \in Tasks :
     LET r == storing[t]
     IN r.OldPointID # 0 =>
          /\ IsPrefix(r.ops, << "fetch", "remove", "add", "upsert" >>)
          /\ r.pc = "failed" => (Len(r.ops) < 4 /\ r.ops # << "fetch", "remove", "add", "upsert" >>)
          /\ (r.pc = "done") =>
                /\ r.ops = << "fetch", "remove", "add", "upsert" >>
                /\ r.pointID = r.OldPointID
                /\ r.OldPointID \in DOMAIN points
                /\ Cardinality(PointsOfFile(points, r.att.ID)) = 1

\* C30: whatever the interleaving of the requests that carry an attachment
\* with the same id, the vector store holds at most one file point for it.
C30_OnePointPerFile ==
  \A att \in SharedFile : Cardinality(PointsOfFile(points, att.ID)) <= 1

RECURSIVE SumTokens(_, _)
\* The token counts of the payloads at the positions in S, added up.
SumTokens(payloads, S) ==
  IF S = {} THEN 0
  ELSE LET i == CHOOSE i \in S : TRUE
       IN payloads[i].TokenCount + SumTokens(payloads, S \ {i})

\* The positions of S in increasing order.
Ascending(S) ==
  CHOOSE f \in [1..Cardinality(S) -> S] :
     \A a, b \in 1..Cardinality(S) : a < b => f[a] < f[b]

\* Some message of the request has the normalized content of the body.
InRequest(req, body) ==
  \E i \in 1..Len(req.messages) :
     /\ req.messages[i].text
     /\ normalizeText(req.messages[i].content) = normalizeText(body)

\* The set S of positions is what a walk in rank order includes: a payload
\* is in S exactly when it fits what the included ones before it left of
\* the feed share and its body is not in the request.
WalkIncludes(S, args) ==
  \A i \in 1..Len(args.relevantContent) :
     LET left == args.feedSize
                   - SumTokens(args.relevantContent, { j \in S : j < i })
     IN i \in S <=> /\ args.relevantContent[i].TokenCount <= left
                    /\ ~InRequest(args.req, args.relevantContent[i].Body)

\* C25: prepareFeeds walks the ranked payloads in order and includes a
\* payload exactly when its token count fits the remaining feed share and
\* its normalized body is no message's normalized content; a skipped payload
\* does not stop the later ones; the feed share goes down by each included
\* token count and never below zero; what is left of it is added to the
\* history share.
C25_FeedsAreTheFittingNewPayloads ==
  feedResult.called =>
    \E S \in SUBSET (1..Len(feedArgs.relevantContent)) :
       /\ WalkIncludes(S, feedArgs)
       /\ feedResult.feeds =
            [k \in 1..Cardinality(S) |->
               feedMessage(feedArgs.relevantContent[Ascending(S)[k]])]
       /\ \A i \in S :
            feedArgs.feedSize
              - SumTokens(feedArgs.relevantContent, { j \in S : j <= i }) >= 0
       /\ feedResult.historySize =
            feedArgs.historySize + feedArgs.feedSize
              - SumTokens(feedArgs.relevantContent, S)

\* A payload that did not fit was skipped, a later one was included, and a
\* payload whose body differs from a message only in case was left out.
C25_Witness ==
  /\ feedResult.called
  /\ Len(feedArgs.relevantContent) = 3
  /\ feedArgs.relevantContent[1].TokenCount > feedArgs.feedSize
  /\ InRequest(feedArgs.req, feedArgs.relevantContent[2].Body)
  /\ ~messageExistsExact(feedArgs.req, feedArgs.relevantContent[2].Body)
  /\ feedResult.feeds = << feedMessage(feedArgs.relevantContent[3]) >>
  /\ feedResult.historySize > feedArgs.historySize

\* The score of the candidate at position i of the search result: the
\* weighted sum of the features it has when the scores are taken.
ScoreAt(i) ==
  LET c == rerankArgs.candidates[i]
      h(name) == IF c.failAt = "tokens" THEN 0
                 ELSE IF c.failAt = "weighted" /\ name # "KeywordOverlap" THEN 0
                 ELSE c.computed
      w == DefaultWeights
  IN c.Features.EmbSim * w[1] + c.Features.Recency * w[2] + c.Features.RoleScore * w[3]
       + c.Features.BodyLen * w[4] + c.Features.PayloadQuality * w[5]
       + h("KeywordOverlap") * w[6] + h("WeightedOverlap") * w[7] + h("BM25") * w[8]
       + h("NgramOverlap") * w[9] + h("WeightedNgram") * w[10]

\* The positions whose score is at least min_rank_score.
PassedPositions ==
  { i \in 1..Len(rerankArgs.candidates) : ScoreAt(i) >= rerankArgs.MinRankScore }

NotNegative(x) == x[1] >= 0
NotPositive(x) == x[1] <= 0

\* Whether the value lies in [0, 1].  A quotient of weight sums does when
\* all weights have one sign, 1 - e^(-s) does exactly when s >= 0; the stores
\* looked at give all weights and terms of a value the same sign, so the
\* signs decide.
InUnit(v) ==
  CASE v.kind = "frac"     -> 0 <= v.n /\ v.n <= v.d
    [] v.kind = "logratio" -> 1 <= v.n /\ v.n <= v.d
    [] v.kind = "exp"      -> v.n <= 0
    [] v.kind = "wratio"   -> \/ \A i \in 1..Len(v.total) : NotNegative(v.total[i])
                              \/ \A i \in 1..Len(v.total) : NotPositive(v.total[i])
    [] v.kind = "satur"    -> \A i \in 1..Len(v.terms) : NotNegative(v.terms[i])

\* C21: after the light features are filled and updateFeaturesForCandidate
\* has returned, every feature of the candidate lies in [0, 1], for every
\* token count, role weight and IDF store.
C21_FeaturesInUnitRange ==
  featResult.called =>
    /\ InUnit(featResult.Features.EmbSim)
    /\ InUnit(featResult.Features.Recency)
    /\ InUnit(featResult.Features.RoleScore)
    /\ InUnit(featResult.Features.BodyLen)
    /\ InUnit(featResult.Features.PayloadQuality)
    /\ InUnit(featResult.Features.KeywordOverlap)
    /\ InUnit(featResult.Features.WeightedOverlap)
    /\ InUnit(featResult.Features.BM25)
    /\ InUnit(featResult.Features.NgramOverlap)
    /\ InUnit(featResult.Features.WeightedNgram)

====
